---- MODULE Spec2Model ----
(***************************************************************************)
(* Verification model of the audio core of Screen-to-Song                  *)
(* (src/backend/audio_processor.py) and of its callers.                    *)
(*                                                                         *)
(* Numbers.  Sample amplitudes are integers in hundredths of full scale    *)
(* (AmpUnit = 1.0), gains are integers in millionths (GainUnit = 1.0).     *)
(* A floating-point product is rounded to the nearest unit, as IEEE        *)
(* arithmetic rounds to the nearest representable value.                   *)
(*                                                                         *)
(* Arrays.  A numpy array is a run-length sequence of records              *)
(* [val, len]: len consecutive samples of value val.  Indices are          *)
(* 0-based, slices are half-open, as in the source.                        *)
(***************************************************************************)
EXTENDS Integers, Sequences, FiniteSets, TLC

VARIABLES
    \* ---- _apply_sidechain, called from mix_and_master ----
    sr,              \* the sample rate passed to _apply_sidechain
    vocals,          \* the vocal buffer (array)
    musicLen,        \* len(background_music)
    vocal_envelope,  \* the envelope array of _apply_sidechain
    i,               \* the loop index of the running loop
    ducking,         \* ducking[i - 1], the gain written last
    pc,              \* position in mix_and_master / _apply_sidechain
    persisted,       \* the number of samples written to output_path, -1: none
    \* ---- the Mood/Scale resolver ----
    arg,             \* the argument of the call
    called,          \* the function called, "none" before the call
    ret,             \* what the call returned or raised
    \* ---- apply_vocal_effects, one call per request ----
    random_seed,     \* the state of the random module when the process started
    random_state,    \* the state of the random module (process-global)
    vpc,             \* vpc[r]: position of request r in apply_vocal_effects
    input,           \* input[r]: the content of the vocal file before the call
    file,            \* file[r]: the content of the file at audio_path
    y,               \* y[r]: the waveform in flight
    seg,             \* seg[r]: the number of segments handled by the timing loop
    processed,       \* processed[r]: the list of processed segments
    result,          \* result[r]: the value apply_vocal_effects returned
    \* ---- sing_lyrics after the vocal transform, and mix_and_master ----
    vlen,            \* vlen[r]: len(vocals), the samples read from the vocal file
    music,           \* music[r]: len(background_music)
    mixed,           \* mixed[r]: the array  mixed  of mix_and_master
    peak,            \* peak[r]: the local  peak  of mix_and_master
    out,             \* out[r]: the content of the file at output_path
    \* ---- _generate_instrument ----
    duration,        \* the note duration passed, in milliseconds
    num_samples,     \* the local  num_samples
    envelope,        \* the local  envelope  (piecewise-linear array)
    ipc,             \* position in _generate_instrument
    \* ---- generate_background_music ----
    duration_s,      \* the argument duration_s, in tenths of a sample period
    tempo_bpm,       \* the argument tempo_bpm
    mood_arg,        \* the argument mood
    gbm,             \* the locals of the call in progress
    np_random,       \* the state of np.random (process-global): values drawn so far
    gpc,             \* position in generate_background_music
    returned,        \* the buffers the calls made so far have returned
    \* ---- run_pipeline  (pipeline.py) ----
    max_retries,     \* the argument max_retries
    given,           \* the optional arguments that are given (truthy)
    rp,              \* the locals of run_pipeline
    ppc,             \* position in run_pipeline
    fn_calls,        \* how often each of the functions passed was called
    slept,           \* the calls of time.sleep made, in order
    cache_file,      \* the cache file of the cache key
    \* ---- the screenshot list of the backend  (main.py) ----
    captured_screenshots,  \* the module-level list
    recorded,        \* the screenshots appended to the list so far
    frame_cache,     \* the keys of the module-level dict frame_cache, in order
    response         \* the outcome of the last request

duckVars == <<sr, vocals, musicLen, vocal_envelope, i, ducking, pc, persisted>>
resolverVars == <<arg, called, ret>>
vocalVars ==
    <<random_seed, random_state, vpc, input, file, y, seg, processed, result>>

songVars == <<vlen, music, mixed, peak, out>>
vocalVars_but_vpc ==
    <<random_seed, random_state, input, file, y, seg, processed, result>>

toneVars == <<duration, num_samples, envelope, ipc>>

bandVars == <<duration_s, tempo_bpm, mood_arg, gbm, np_random, gpc, returned>>

pipelineVars == <<max_retries, given, rp, ppc, fn_calls, slept, cache_file>>

shotVars == <<captured_screenshots, recorded, frame_cache, response>>

vars ==
    <<duckVars, resolverVars, vocalVars, songVars, toneVars, bandVars,
      pipelineVars, shotVars>>

\* what the actions of one component leave alone
notDuck == <<resolverVars, vocalVars, songVars, toneVars, bandVars, pipelineVars, shotVars>>
notResolver == <<duckVars, vocalVars, songVars, toneVars, bandVars, pipelineVars, shotVars>>
notRequest == <<duckVars, resolverVars, toneVars, bandVars, pipelineVars, shotVars>>
notTone == <<duckVars, resolverVars, vocalVars, songVars, bandVars, pipelineVars, shotVars>>
notBand == <<duckVars, resolverVars, vocalVars, songVars, toneVars, pipelineVars, shotVars>>
notPipeline ==
    <<duckVars, resolverVars, vocalVars, songVars, toneVars, bandVars, shotVars>>
notShots ==
    <<duckVars, resolverVars, vocalVars, songVars, toneVars, bandVars, pipelineVars>>

\* the state of a component that takes no part in a specification
IdleDuck ==
    /\ sr = 0 /\ vocals = <<>> /\ musicLen = 0 /\ vocal_envelope = <<>>
    /\ i = 0 /\ ducking = 0 /\ pc = "idle" /\ persisted = -1
IdleResolver == arg = <<>> /\ called = "idle" /\ ret = <<>>
IdleVocal ==
    /\ random_seed = 0 /\ random_state = 0 /\ vpc = <<>> /\ input = <<>>
    /\ file = <<>> /\ y = <<>> /\ seg = <<>> /\ processed = <<>> /\ result = <<>>
IdleSong == vlen = <<>> /\ music = <<>> /\ mixed = <<>> /\ peak = <<>> /\ out = <<>>
IdleTone == duration = 0 /\ num_samples = 0 /\ envelope = <<>> /\ ipc = "idle"
IdleBand ==
    /\ duration_s = 0 /\ tempo_bpm = 0 /\ mood_arg = <<>> /\ gbm = <<>>
    /\ np_random = 0 /\ gpc = "idle" /\ returned = <<>>
IdlePipeline ==
    /\ max_retries = 0 /\ given = {} /\ rp = <<>> /\ ppc = "idle"
    /\ fn_calls = <<>> /\ slept = <<>> /\ cache_file = "idle"
IdleShots ==
    /\ captured_screenshots = <<>> /\ recorded = 0 /\ frame_cache = <<>>
    /\ response = "idle"

----------------------------------------------------------------------------
(* Units and program constants *)

SAMPLE_RATE == 44100
AmpUnit == 100
GainUnit == 1000000

Min(a, b) == IF a < b THEN a ELSE b
Max(a, b) == IF a > b THEN a ELSE b

----------------------------------------------------------------------------
(* numpy arrays, run-length encoded *)

RECURSIVE ArrLen(_)
ArrLen(a) == IF a = <<>> THEN 0 ELSE a[1].len + ArrLen(Tail(a))

RECURSIVE ArrAt(_, _)
ArrAt(a, p) == IF p < a[1].len THEN a[1].val ELSE ArrAt(Tail(a), p - a[1].len)

\* a[:n]
RECURSIVE ArrTake(_, _)
ArrTake(a, n) ==
    IF n <= 0 \/ a = <<>> THEN <<>>
    ELSE IF a[1].len <= n THEN <<a[1]>> \o ArrTake(Tail(a), n - a[1].len)
    ELSE <<[val |-> a[1].val, len |-> n]>>

\* a[n:]
RECURSIVE ArrDrop(_, _)
ArrDrop(a, n) ==
    IF a = <<>> THEN <<>>
    ELSE IF n <= 0 THEN a
    ELSE IF a[1].len <= n THEN ArrDrop(Tail(a), n - a[1].len)
    ELSE <<[val |-> a[1].val, len |-> a[1].len - n]>> \o Tail(a)

\* the canonical encoding: no empty run, no two adjacent runs of one value
RECURSIVE ArrNorm(_)
ArrNorm(a) ==
    IF a = <<>> THEN <<>>
    ELSE IF a[1].len = 0 THEN ArrNorm(Tail(a))
    ELSE IF Len(a) = 1 THEN a
    ELSE IF a[2].len = 0 THEN ArrNorm(<<a[1]>> \o Tail(Tail(a)))
    ELSE IF a[1].val = a[2].val
         THEN ArrNorm(<<[val |-> a[1].val, len |-> a[1].len + a[2].len]>>
                      \o Tail(Tail(a)))
    ELSE <<a[1]>> \o ArrNorm(Tail(a))

\* np.zeros(n), np.zeros_like
ArrZeros(n) == ArrNorm(<<[val |-> 0, len |-> n]>>)

\* a[from:to] = v   (a slice assignment stops at the end of the array)
ArrFill(a, from, to, v) ==
    LET n  == ArrLen(a)
        lo == Min(from, n)
        hi == Max(lo, Min(to, n))
    IN  ArrNorm(ArrTake(a, lo) \o <<[val |-> v, len |-> hi - lo]>> \o ArrDrop(a, hi))

\* the array as it is, nothing appended
ArrPad_Nothing(a, n) == a

\* np.pad(a, (0, n)): n zeros appended
ArrPad(a, n) == ArrNorm(a \o <<[val |-> 0, len |-> n]>>)

\* sum(a[from:to] ** 2)
RECURSIVE SumSqRuns(_)
SumSqRuns(a) ==
    IF a = <<>> THEN 0 ELSE a[1].val * a[1].val * a[1].len + SumSqRuns(Tail(a))

ArrSumSq(a, from, to) == SumSqRuns(ArrTake(ArrDrop(a, from), to - from))

----------------------------------------------------------------------------
(* Bounds of the model *)

SmallRate == 40     \* a sample rate at which a window is two samples long
MaxLen == 5         \* longest buffer, in samples, enumerated sample by sample

\* sample values a buffer is built from: silence, exactly the activity
\* threshold (0.01), and a loud sample (0.5)
Amps == {0, AmpUnit \div 100, AmpUnit \div 2}

----------------------------------------------------------------------------
(* _apply_sidechain  (audio_processor.py 270-291) *)

\* window_size = int(0.05 * sr)
window_size(s) == (5 * s) \div 100

\* the step of the window loop, window_size // 2
hop(s) == window_size(s) \div 2

\* The envelope holds, in place of the RMS of a window, the sum of the squares
\* of its samples.  Every window the loop visits has window_size samples, so
\* the order of the sums is the order of the RMS values, and
\* rms > 0.01 exactly when sum > window_size * 0.01^2.
WindowEnergy(v, from, w) == ArrSumSq(v, from, from + w)

\* vocal_envelope > 0.01
Threshold == AmpUnit \div 100

\* the comparison without the threshold: every envelope value counts as active
IsActive_Unthresholded(e, w) == e >= 0

IsActive(e, w) == e > w * Threshold * Threshold

duck_amount == (4 * GainUnit) \div 10

\* the smoothing with the target weighted by rate in place of 1 - rate
Smooth_TargetTimesRate(prev, rate, target) ==
    (prev * rate + target * rate + 50) \div 100

\* ducking[i - 1] * rate + target * (1 - rate), rate in hundredths
Smooth(prev, rate, target) == (prev * rate + target * (100 - rate) + 50) \div 100

\* the body of the gain loop for index k, given ducking[k - 1]
DuckValue(k, prev, isActive) ==
    LET target == IF isActive THEN duck_amount ELSE GainUnit
        rate   == IF isActive THEN 95 ELSE 99
    IN  IF k > 0 THEN Smooth(prev, rate, target) ELSE target

\* mix_and_master 312-316: zero-pad the shorter buffer, then call
\* _apply_sidechain, which starts with an all-zero envelope
MatchLengths ==
    /\ pc = "match"
    /\ LET nv == ArrLen(vocals)
       IN  /\ vocals' = IF nv < musicLen THEN ArrPad(vocals, musicLen - nv) ELSE vocals
           /\ musicLen' = IF nv > musicLen THEN nv ELSE musicLen
    /\ vocal_envelope' = ArrZeros(ArrLen(vocals'))
    /\ i' = 0
    /\ pc' = IF hop(sr) = 0 THEN "raised" ELSE "envelope"
    /\ UNCHANGED <<sr, ducking, persisted, notDuck>>

\* one pass of  for i in range(0, len(vocals) - window_size, window_size // 2)
EnvelopeStep ==
    /\ pc = "envelope"
    /\ i < ArrLen(vocals) - window_size(sr)
    /\ LET w   == window_size(sr)
           rms == WindowEnergy(vocals, i, w)
       IN  vocal_envelope' =
               ArrFill(vocal_envelope, i, i + w, Max(ArrAt(vocal_envelope, i), rms))
    /\ i' = i + hop(sr)
    /\ UNCHANGED <<sr, vocals, musicLen, ducking, pc, persisted, notDuck>>

\* the window loop ends; ducking = np.ones_like(music)
EnvelopeDone ==
    /\ pc = "envelope"
    /\ i >= ArrLen(vocals) - window_size(sr)
    /\ pc' = "duck"
    /\ i' = 0
    /\ ducking' = GainUnit
    /\ UNCHANGED <<sr, vocals, musicLen, vocal_envelope, persisted, notDuck>>

\* one pass of  for i in range(len(ducking)); active[i] past the end of the
\* envelope raises IndexError
DuckStep ==
    /\ pc = "duck"
    /\ i < musicLen
    /\ IF i >= ArrLen(vocal_envelope)
       THEN /\ pc' = "raised"
            /\ UNCHANGED <<i, ducking>>
       ELSE /\ ducking' = DuckValue(i, ducking,
                                    IsActive(ArrAt(vocal_envelope, i), window_size(sr)))
            /\ i' = i + 1
            /\ pc' = pc
    /\ UNCHANGED <<sr, vocals, musicLen, vocal_envelope, persisted, notDuck>>

\* return music * ducking
SidechainReturn ==
    /\ pc = "duck"
    /\ i >= musicLen
    /\ pc' = "ducked"
    /\ UNCHANGED <<sr, vocals, musicLen, vocal_envelope, i, ducking, persisted, notDuck>>

\* mix_and_master 321-347: EQ, vocals + ducked_music * 0.35 (the shapes must
\* agree), mastering, np.max (which raises ValueError on an empty array),
\* clip, int16, and the write of as many samples as the mix has
MixWrite ==
    /\ pc = "ducked"
    /\ IF ArrLen(vocals) # musicLen \/ musicLen = 0
       THEN /\ pc' = "failed"
            /\ UNCHANGED persisted
       ELSE /\ pc' = "persisted"
            /\ persisted' = musicLen
    /\ UNCHANGED <<sr, vocals, musicLen, vocal_envelope, i, ducking, notDuck>>

\* every buffer of at most n samples over Amps, sample by sample
RECURSIVE BuffersUpTo(_)
BuffersUpTo(n) ==
    IF n = 0 THEN {<<>>}
    ELSE LET shorter == BuffersUpTo(n - 1)
         IN  shorter \cup
             {ArrNorm(b \o <<[val |-> a, len |-> 1]>>) : b \in shorter, a \in Amps}

InitDuck ==
    /\ sr = SmallRate
    /\ vocals \in BuffersUpTo(MaxLen)
    /\ musicLen \in 0..MaxLen
    /\ vocal_envelope = <<>>
    /\ i = 0
    /\ ducking = GainUnit
    /\ pc = "match"
    /\ persisted = -1
    /\ IdleResolver
    /\ IdleVocal
    /\ IdleSong
    /\ IdleTone
    /\ IdleBand
    /\ IdlePipeline
    /\ IdleShots

NextDuck ==
    \/ MatchLengths
    \/ EnvelopeStep
    \/ EnvelopeDone
    \/ DuckStep
    \/ SidechainReturn
    \/ MixWrite

\* mix_and_master's call of _apply_sidechain on short buffers
SpecDuck == InitDuck /\ [][NextDuck]_vars

\* Speech at the production sample rate: an optional loud burst (three hops,
\* a little more than one window), one second of silence, an optional burst.
PauseVocals ==
    {ArrNorm(<<[val |-> a, len |-> 3 * hop(SAMPLE_RATE)],
               [val |-> 0, len |-> SAMPLE_RATE],
               [val |-> c, len |-> 3 * hop(SAMPLE_RATE)]>>) :
        a \in {0, AmpUnit \div 2}, c \in {0, AmpUnit \div 2}}

\* main.py 449-454 sizes the backing track to the duration of the vocal
InitPause ==
    /\ sr = SAMPLE_RATE
    /\ vocals \in PauseVocals
    /\ musicLen = ArrLen(vocals)
    /\ vocal_envelope = <<>>
    /\ i = 0
    /\ ducking = GainUnit
    /\ pc = "match"
    /\ persisted = -1
    /\ IdleResolver
    /\ IdleVocal
    /\ IdleSong
    /\ IdleTone
    /\ IdleBand
    /\ IdlePipeline
    /\ IdleShots

\* mix_and_master's call of _apply_sidechain at 44100 Hz, sample by sample
SpecPause == InitPause /\ [][NextDuck]_vars

----------------------------------------------------------------------------
(* Claims on the ducking curve *)

\* the gain loop has written ducking[i - 1]
Written == pc \in {"duck", "ducked"} /\ i > 0

\* C1: every value of the ducking curve lies in [0.4, 1.0], and the finished
\* curve has one value per sample of the backing track, which is as long as
\* the vocal.
C1_DuckingInRange ==
    /\ Written => (duck_amount <= ducking /\ ducking <= GainUnit)
    /\ pc = "ducked" => (i = musicLen /\ musicLen = ArrLen(vocals))

\* a finished curve of full length whose last gain is strictly between the
\* two targets: the smoothing has acted on an active vocal
C1_Witness ==
    /\ pc = "ducked"
    /\ i = MaxLen
    /\ duck_amount < ducking /\ ducking < GainUnit

\* the gain counts as 1.0 when it is within 1e-4 of it
ConvergeTol == GainUnit \div 10000

\* sample i - 1 is the midpoint of one second of silent vocal samples
MidSilence ==
    LET k    == i - 1
        half == sr \div 2
    IN  /\ Written
        /\ k - half >= 0
        /\ k + half <= ArrLen(vocals)
        /\ ArrSumSq(vocals, k - half, k + half) = 0

\* C2: in a run of at least 1 s of silent vocal samples, wherever it lies in
\* the vocal, the ducking curve has converged to 1.0 by the middle of the run.
C2_SilenceReleases == MidSilence => GainUnit - ducking <= ConvergeTol

\* every sample of the vocal is zero
Silent == ArrSumSq(vocals, 0, ArrLen(vocals)) = 0

\* C14: when the vocal is silent no position of the envelope is active,
\* every gain written to the ducking curve is exactly 1.0, and so the backing
\* track, multiplied by the curve, is returned unchanged.
C14_SilentVocalNoDucking ==
    Silent =>
        /\ \A p \in 0..(ArrLen(vocal_envelope) - 1) :
               ~IsActive(ArrAt(vocal_envelope, p), window_size(sr))
        /\ Written => ducking = GainUnit

\* the whole curve of a silent vocal of full length has been written
C14_Witness ==
    /\ pc = "ducked"
    /\ Silent
    /\ ArrLen(vocals) = MaxLen
    /\ i = MaxLen
    /\ ducking = GainUnit

\* C20: mix_and_master zero-pads the shorter of vocal and backing track to
\* the length of the longer, max(len(vocal), len(backing)), keeping the
\* samples it had; _apply_sidechain therefore works on buffers and an
\* envelope of one length, its gain loop never indexes past the end of the
\* activity mask, and the output written has that common length.
C20_EqualLengths ==
    [][/\ pc = "match" =>
              /\ ArrLen(vocals') = Max(ArrLen(vocals), musicLen)
              /\ musicLen' = Max(ArrLen(vocals), musicLen)
              /\ ArrNorm(ArrTake(vocals', ArrLen(vocals))) = vocals
              /\ ArrSumSq(vocals', ArrLen(vocals), ArrLen(vocals')) = 0
       /\ pc' \in {"envelope", "duck", "ducked", "persisted"} =>
              /\ ArrLen(vocals') = musicLen'
              /\ ArrLen(vocal_envelope') = musicLen'
       /\ pc' = "duck" => i' <= ArrLen(vocal_envelope')
       /\ pc' # "raised"
       /\ pc' = "persisted" => persisted' = musicLen']_vars

\* a vocal shorter than the backing track was padded, ducked over the whole
\* length of the backing track, and the mix written
C20_Witness ==
    /\ pc = "persisted"
    /\ persisted = MaxLen
    /\ Len(vocals) = 2
    /\ vocals[1].val = AmpUnit \div 2
    /\ vocals[2] = [val |-> 0, len |-> MaxLen - 1]
    /\ i = MaxLen

\* the starts of the windows the envelope is computed from, every hop
\* samples, and those of them whose window covers position p
WindowStarts ==
    {k \in 0..(ArrLen(vocals) - window_size(sr) - 1) : k % hop(sr) = 0}
Covering(p) == {k \in WindowStarts : k <= p /\ p < k + window_size(sr)}

\* the largest element of a set of naturals, 0 for the empty set
Largest(S) == IF S = {} THEN 0 ELSE CHOOSE x \in S : \A z \in S : z <= x

\* C17: once the envelope is computed, its value at a position is the
\* largest RMS (here: the largest energy, all windows being of one size)
\* among the windows that cover the position, 0 when none does; so a
\* position is active only if a window that covers it has an RMS above 0.01.
C17_EnvelopeOfCoveringWindows ==
    pc \in {"duck", "ducked"} =>
        \A p \in 0..(ArrLen(vocal_envelope) - 1) :
            ArrAt(vocal_envelope, p) =
                Largest({WindowEnergy(vocals, k, window_size(sr)) : k \in Covering(p)})

----------------------------------------------------------------------------
(* Python values and strings *)

\* A str is a sequence of one-character strings.  A Python value is a record:
\* [kind |-> "str", s |-> characters], [kind |-> "none"] or
\* [kind |-> "int", n |-> number].
Str(chars) == [kind |-> "str", s |-> chars]
None == [kind |-> "none"]
IntVal(n) == [kind |-> "int", n |-> n]

\* isinstance(v, str)
IsStr(v) == v.kind = "str"

\* the truth value of v in a condition:  None, "" and 0 are false
Truthy(v) ==
    CASE v.kind = "str" -> v.s # <<>>
      [] v.kind = "int" -> v.n # 0
      [] OTHER -> FALSE

UpperLetters == <<"A", "B", "C", "D", "E", "F", "G", "H", "I", "J", "K", "L", "M", "N", "O", "P", "Q", "R", "S", "T", "U", "V", "W", "X", "Y", "Z">>
LowerLetters == <<"a", "b", "c", "d", "e", "f", "g", "h", "i", "j", "k", "l", "m", "n", "o", "p", "q", "r", "s", "t", "u", "v", "w", "x", "y", "z">>

\* str.lower()
UpperSet == {UpperLetters[k] : k \in 1..26}
LowerOf == [c \in UpperSet |-> LowerLetters[CHOOSE k \in 1..26 : UpperLetters[k] = c]]
LowerChar(c) == IF c \in UpperSet THEN LowerOf[c] ELSE c
StrLower(s) == [j \in 1..Len(s) |-> LowerChar(s[j])]

\* w in s  (substring test)
StrIn(w, s) ==
    \E p \in 0..(Len(s) - Len(w)) : SubSeq(s, p + 1, p + Len(w)) = w

\* any(w in s for w in words)
AnyIn(words, s) == \E k \in 1..Len(words) : StrIn(words[k], s)

----------------------------------------------------------------------------
(* Mood/Scale resolver  (audio_processor.py 21-34, 350-361) *)

\* frequencies are in hundredths of a hertz
Hz(f) == f * 100
Scale(base, d) == [kind |-> "scale", base_freq |-> base, melody_freqs |-> d]
Raise(exc) == [kind |-> "raise", exc |-> exc]

\* the resolver with the dark group tested before the energetic one
get_melody_freqs_for_mood_DarkFirst(mood) ==
    LET mood_lower == IF IsStr(mood) THEN StrLower(mood.s) ELSE <<"n", "e", "u", "t", "r", "a", "l">>
    IN  IF AnyIn(<<<<"c", "a", "l", "m">>, <<"p", "e", "a", "c", "e", "f", "u", "l">>, <<"s", "e", "r", "e", "n", "e">>, <<"r", "e", "l", "a", "x", "e", "d">>, <<"l", "o", "-", "f", "i">>>>, mood_lower)
        THEN Scale(Hz(220), <<Hz(220), Hz(247), Hz(277), Hz(330), Hz(370)>>)
        ELSE IF AnyIn(<<<<"d", "a", "r", "k">>, <<"m", "y", "s", "t", "e", "r", "i", "o", "u", "s">>, <<"o", "m", "i", "n", "o", "u", "s">>, <<"h", "a", "u", "n", "t", "i", "n", "g">>>>, mood_lower)
        THEN Scale(Hz(110), <<Hz(110), Hz(123), Hz(131), Hz(147), Hz(165)>>)
        ELSE IF AnyIn(<<<<"e", "n", "e", "r", "g", "e", "t", "i", "c">>, <<"e", "x", "c", "i", "t", "i", "n", "g">>, <<"u", "p", "b", "e", "a", "t">>, <<"e", "d", "m">>, <<"p", "o", "p">>>>, mood_lower)
        THEN Scale(Hz(440), <<Hz(440), Hz(494), Hz(523), Hz(587), Hz(659)>>)
        ELSE IF AnyIn(<<<<"c", "o", "s", "m", "i", "c">>, <<"e", "t", "h", "e", "r", "e", "a", "l">>, <<"d", "r", "e", "a", "m", "y">>, <<"a", "m", "b", "i", "e", "n", "t">>, <<"j", "a", "z", "z">>>>, mood_lower)
        THEN Scale(Hz(330), <<Hz(330), Hz(370), Hz(415), Hz(440), Hz(494)>>)
        ELSE Scale(26163, <<Hz(262), Hz(294), Hz(330), Hz(349), Hz(392)>>)

get_melody_freqs_for_mood(mood) ==
    LET mood_lower == IF IsStr(mood) THEN StrLower(mood.s) ELSE <<"n", "e", "u", "t", "r", "a", "l">>
    IN  IF AnyIn(<<<<"c", "a", "l", "m">>, <<"p", "e", "a", "c", "e", "f", "u", "l">>, <<"s", "e", "r", "e", "n", "e">>, <<"r", "e", "l", "a", "x", "e", "d">>, <<"l", "o", "-", "f", "i">>>>, mood_lower)
        THEN Scale(Hz(220), <<Hz(220), Hz(247), Hz(277), Hz(330), Hz(370)>>)
        ELSE IF AnyIn(<<<<"e", "n", "e", "r", "g", "e", "t", "i", "c">>, <<"e", "x", "c", "i", "t", "i", "n", "g">>, <<"u", "p", "b", "e", "a", "t">>, <<"e", "d", "m">>, <<"p", "o", "p">>>>, mood_lower)
        THEN Scale(Hz(440), <<Hz(440), Hz(494), Hz(523), Hz(587), Hz(659)>>)
        ELSE IF AnyIn(<<<<"d", "a", "r", "k">>, <<"m", "y", "s", "t", "e", "r", "i", "o", "u", "s">>, <<"o", "m", "i", "n", "o", "u", "s">>, <<"h", "a", "u", "n", "t", "i", "n", "g">>>>, mood_lower)
        THEN Scale(Hz(110), <<Hz(110), Hz(123), Hz(131), Hz(147), Hz(165)>>)
        ELSE IF AnyIn(<<<<"c", "o", "s", "m", "i", "c">>, <<"e", "t", "h", "e", "r", "e", "a", "l">>, <<"d", "r", "e", "a", "m", "y">>, <<"a", "m", "b", "i", "e", "n", "t">>, <<"j", "a", "z", "z">>>>, mood_lower)
        THEN Scale(Hz(330), <<Hz(330), Hz(370), Hz(415), Hz(440), Hz(494)>>)
        ELSE Scale(26163, <<Hz(262), Hz(294), Hz(330), Hz(349), Hz(392)>>)

\* the dict of get_tempo_for_genre, in insertion order
tempos ==
    <<[key |-> <<"l", "o", "-", "f", "i">>, bpm |-> 85],
      [key |-> <<"j", "a", "z", "z">>, bpm |-> 100],
      [key |-> <<"c", "l", "a", "s", "s", "i", "c", "a", "l">>, bpm |-> 90],
      [key |-> <<"p", "o", "p">>, bpm |-> 120],
      [key |-> <<"e", "d", "m">>, bpm |-> 128],
      [key |-> <<"r", "o", "c", "k">>, bpm |-> 130],
      [key |-> <<"h", "i", "p", "-", "h", "o", "p">>, bpm |-> 90],
      [key |-> <<"r", "&", "b">>, bpm |-> 95],
      [key |-> <<"a", "m", "b", "i", "e", "n", "t">>, bpm |-> 70],
      [key |-> <<"f", "u", "n", "k">>, bpm |-> 110]>>

\* the loop without its early return: the last matching key decides
RECURSIVE TempoLoop_LastMatch(_, _)
TempoLoop_LastMatch(k, genre_lower) ==
    IF k > Len(tempos) THEN 120
    ELSE LET later == TempoLoop_LastMatch(k + 1, genre_lower)
         IN  IF later # 120 \/ ~StrIn(tempos[k].key, genre_lower)
             THEN later ELSE tempos[k].bpm

\* for key, bpm in tempos.items(): if key in genre_lower: return bpm
RECURSIVE TempoLoop(_, _)
TempoLoop(k, genre_lower) ==
    IF k > Len(tempos) THEN 120
    ELSE IF StrIn(tempos[k].key, genre_lower) THEN tempos[k].bpm
    ELSE TempoLoop(k + 1, genre_lower)

Tempo(bpm) == [kind |-> "tempo", bpm |-> bpm]

\* genre.lower() raises AttributeError on a value that has no such method
get_tempo_for_genre(genre) ==
    IF Truthy(genre) /\ ~IsStr(genre) THEN Raise("AttributeError")
    ELSE LET genre_lower == IF Truthy(genre) THEN StrLower(genre.s) ELSE <<"p", "o", "p">>
         IN  Tempo(TempoLoop(1, genre_lower))

\* The texts a mood or genre string is put together from: every keyword of
\* the two tables, spellings in other case, text that holds no keyword, and
\* the examples of the specification.
Fragments ==
    {<<"c", "a", "l", "m">>, <<"p", "e", "a", "c", "e", "f", "u", "l">>,
     <<"s", "e", "r", "e", "n", "e">>, <<"r", "e", "l", "a", "x", "e", "d">>,
     <<"l", "o", "-", "f", "i">>, <<"e", "n", "e", "r", "g", "e", "t", "i", "c">>,
     <<"e", "x", "c", "i", "t", "i", "n", "g">>, <<"u", "p", "b", "e", "a", "t">>,
     <<"e", "d", "m">>, <<"p", "o", "p">>, <<"d", "a", "r", "k">>,
     <<"m", "y", "s", "t", "e", "r", "i", "o", "u", "s">>,
     <<"o", "m", "i", "n", "o", "u", "s">>, <<"h", "a", "u", "n", "t", "i", "n", "g">>,
     <<"c", "o", "s", "m", "i", "c">>, <<"e", "t", "h", "e", "r", "e", "a", "l">>,
     <<"d", "r", "e", "a", "m", "y">>, <<"a", "m", "b", "i", "e", "n", "t">>,
     <<"j", "a", "z", "z">>, <<"c", "l", "a", "s", "s", "i", "c", "a", "l">>,
     <<"r", "o", "c", "k">>, <<"h", "i", "p", "-", "h", "o", "p">>, <<"r", "&", "b">>,
     <<"f", "u", "n", "k">>, <<"C", "a", "l", "m">>, <<"E", "D", "M">>,
     <<"L", "o", "-", "F", "i">>, <<"H", "i", "p", "-", "H", "o", "p">>, <<"R", "&", "B">>,
     <<" ">>, <<"x">>, <<"p", "o">>, <<"n", "e", "u", "t", "r", "a", "l">>,
     <<"v", "e", "r", "y", " ", "c", "a", "l", "m", " ", "d", "a", "y">>,
     <<"X", "Y", "Z", "-", "u", "n", "k", "n", "o", "w", "n">>,
     <<"d", "e", "e", "p", "-", "h", "o", "u", "s", "e", " ", "e", "d", "m", " ", "m", "i", "x">>,
     <<"u", "n", "k", "n", "o", "w", "n", "-", "g", "e", "n", "r", "e">>}

MaxParts == 2       \* most fragments in one mood or genre string

RECURSIVE TextsUpTo(_)
TextsUpTo(n) ==
    IF n = 0 THEN {<<>>}
    ELSE LET shorter == TextsUpTo(n - 1)
         IN  shorter \cup {t \o f : t \in shorter, f \in Fragments}

\* the arguments a caller may pass: strings, None, and numbers
Arguments ==
    {Str(t) : t \in TextsUpTo(MaxParts)} \cup {None, IntVal(0), IntVal(7)}

\* np.log2 in fixed point.  LogUnit is 1.0; Log2Bits(x, k) is the first k
\* binary digits of log2(x / LogUnit) for 1 <= x / LogUnit < 2, found by
\* squaring: a square of 2 or more gives the digit 1 and is halved.
LogUnit == 2^14
RECURSIVE Log2Bits(_, _)
Log2Bits(x, k) ==
    IF k = 0 THEN 0
    ELSE LET sq == (x * x) \div LogUnit
         IN  IF sq >= 2 * LogUnit
             THEN 2^(k - 1) + Log2Bits(sq \div 2, k - 1)
             ELSE Log2Bits(sq, k - 1)

\* log2(num / den) in 1024ths, for positive num and den
RECURSIVE Log2(_, _)
Log2(num, den) ==
    IF num < den THEN -Log2(den, num)
    ELSE IF num >= 2 * den THEN 1024 + Log2(num, 2 * den)
    ELSE Log2Bits((num * LogUnit) \div den, 10)

\* semitones are in thousandths
SemiUnit == 1000

\* 79: 12 * np.log2(target_freq / base_freq)
Semitones(target_freq, base_freq) ==
    (12 * SemiUnit * Log2(target_freq, base_freq)) \div 1024

\* the shift without the scaling by the mood: 4.0
semitones_shift_Flat(semitones) == 4 * SemiUnit

\* 81: max(4.0, semitones * 0.7 + 4.0)
semitones_shift(semitones) ==
    Max(4 * SemiUnit, (7 * semitones) \div 10 + 4 * SemiUnit)

\* 77-81 of apply_vocal_effects: the scale of the mood, its middle degree,
\* the distance in semitones and the shift handed to pitch_shift
PitchShift(mood) ==
    LET scale == get_melody_freqs_for_mood(mood)
        base_freq == scale.base_freq
        melody_freqs == scale.melody_freqs
        target_freq == melody_freqs[Len(melody_freqs) \div 2 + 1]
        semitones == Semitones(target_freq, base_freq)
    IN  [kind |-> "shift", base_freq |-> base_freq, target_freq |-> target_freq,
         semitones |-> semitones, n_steps |-> semitones_shift(semitones)]

CallPitchShift ==
    /\ called = "none"
    /\ called' = "apply_vocal_effects"
    /\ ret' = PitchShift(arg)
    /\ UNCHANGED <<arg, notResolver>>

CallMelody ==
    /\ called = "none"
    /\ called' = "get_melody_freqs_for_mood"
    /\ ret' = get_melody_freqs_for_mood(arg)
    /\ UNCHANGED <<arg, notResolver>>

CallTempo ==
    /\ called = "none"
    /\ called' = "get_tempo_for_genre"
    /\ ret' = get_tempo_for_genre(arg)
    /\ UNCHANGED <<arg, notResolver>>

InitResolver ==
    /\ arg \in Arguments
    /\ called = "none"
    /\ ret = None
    /\ IdleDuck
    /\ IdleVocal
    /\ IdleSong
    /\ IdleTone
    /\ IdleBand
    /\ IdlePipeline
    /\ IdleShots

NextResolver ==
    \/ CallMelody
    \/ CallTempo
    \/ CallPitchShift

\* one call of a resolver function on an argument
SpecResolver == InitResolver /\ [][NextResolver]_vars

----------------------------------------------------------------------------
(* Claims on the resolver *)

\* the tables of section 4.1 of the specification
MoodGroups ==
    <<{<<"c", "a", "l", "m">>, <<"p", "e", "a", "c", "e", "f", "u", "l">>, <<"s", "e", "r", "e", "n", "e">>, <<"r", "e", "l", "a", "x", "e", "d">>, <<"l", "o", "-", "f", "i">>},
      {<<"e", "n", "e", "r", "g", "e", "t", "i", "c">>, <<"e", "x", "c", "i", "t", "i", "n", "g">>, <<"u", "p", "b", "e", "a", "t">>, <<"e", "d", "m">>, <<"p", "o", "p">>},
      {<<"d", "a", "r", "k">>, <<"m", "y", "s", "t", "e", "r", "i", "o", "u", "s">>, <<"o", "m", "i", "n", "o", "u", "s">>, <<"h", "a", "u", "n", "t", "i", "n", "g">>},
      {<<"c", "o", "s", "m", "i", "c">>, <<"e", "t", "h", "e", "r", "e", "a", "l">>, <<"d", "r", "e", "a", "m", "y">>, <<"a", "m", "b", "i", "e", "n", "t">>, <<"j", "a", "z", "z">>}>>
GroupScales ==
    <<Scale(22000, <<22000, 24700, 27700, 33000, 37000>>),
      Scale(44000, <<44000, 49400, 52300, 58700, 65900>>),
      Scale(11000, <<11000, 12300, 13100, 14700, 16500>>),
      Scale(33000, <<33000, 37000, 41500, 44000, 49400>>)>>
DefaultScale == Scale(26163, <<26200, 29400, 33000, 34900, 39200>>)
TempoTable ==
    <<<<<<"l", "o", "-", "f", "i">>, 85>>, <<<<"j", "a", "z", "z">>, 100>>, <<<<"c", "l", "a", "s", "s", "i", "c", "a", "l">>, 90>>, <<<<"p", "o", "p">>, 120>>, <<<<"e", "d", "m">>, 128>>,
      <<<<"r", "o", "c", "k">>, 130>>, <<<<"h", "i", "p", "-", "h", "o", "p">>, 90>>, <<<<"r", "&", "b">>, 95>>, <<<<"a", "m", "b", "i", "e", "n", "t">>, 70>>, <<<<"f", "u", "n", "k">>, 110>>>>
DefaultTempo == Tempo(120)

\* two characters are the same letter, whatever their case
CasePairs == {<<UpperLetters[k], LowerLetters[k]>> : k \in 1..26}
SameLetter(a, b) == a = b \/ <<a, b>> \in CasePairs \/ <<b, a>> \in CasePairs

\* w occurs in s at some position, case ignored
Occurs(w, s) ==
    \E p \in 0..(Len(s) - Len(w)) : \A j \in 1..Len(w) : SameLetter(s[p + j], w[j])

\* the keyword groups, and the tempo entries, with a keyword that occurs in s
GroupHits(s) == {g \in 1..Len(MoodGroups) : \E w \in MoodGroups[g] : Occurs(w, s)}
TempoHits(s) == {k \in 1..Len(TempoTable) : Occurs(TempoTable[k][1], s)}
Least(S) == CHOOSE x \in S : \A z \in S : x <= z

CalledMelody == called = "get_melody_freqs_for_mood"
CalledTempo == called = "get_tempo_for_genre"

\* the argument holds no keyword of the table of the function called: it is
\* no string, or a string (the empty one included) in which none occurs
Unrecognized ==
    \/ ~IsStr(arg)
    \/ CalledMelody /\ GroupHits(arg.s) = {}
    \/ CalledTempo /\ TempoHits(arg.s) = {}

\* C6: neither resolver function raises, whatever it is passed, and an
\* argument that is empty, None, no string or without a keyword gives the
\* default scale, respectively the default tempo 120.
C6_ResolverNeverRaises ==
    (CalledMelody \/ CalledTempo) =>
        /\ ret.kind # "raise"
        /\ Unrecognized => ret = (IF CalledMelody THEN DefaultScale ELSE DefaultTempo)

\* C7: for a string, get_melody_freqs_for_mood returns the scale of the first
\* group, in the order calm / energetic / dark / cosmic, one of whose keywords
\* occurs in the string with case ignored, wherever in the string it occurs,
\* and the default scale when no group has one.
C7_FirstGroupWins ==
    (CalledMelody /\ IsStr(arg)) =>
        LET hits == GroupHits(arg.s)
        IN  ret = IF hits = {} THEN DefaultScale ELSE GroupScales[Least(hits)]

\* "EDMcalm": the keyword of the second group comes first in the string and
\* in upper case, and the first group wins
C7_Witness ==
    /\ CalledMelody
    /\ arg = Str(<<"E", "D", "M">> \o <<"c", "a", "l", "m">>)
    /\ ret = GroupScales[1]

\* C8: for a string, get_tempo_for_genre returns the bpm of the first entry of
\* the table, in the table's order, whose key occurs in the string with case
\* ignored, and 120 when no key occurs in it.
C8_FirstTempoWins ==
    (CalledTempo /\ IsStr(arg)) =>
        LET hits == TempoHits(arg.s)
        IN  ret = IF hits = {} THEN DefaultTempo ELSE Tempo(TempoTable[Least(hits)][2])

\* "funkLo-Fi": the last key of the table comes first in the string, the
\* first key of the table follows in mixed case, and its tempo is returned
C8_Witness ==
    /\ CalledTempo
    /\ arg = Str(<<"f", "u", "n", "k">> \o <<"L", "o", "-", "F", "i">>)
    /\ ret = Tempo(85)

----------------------------------------------------------------------------
(* The random module  (audio_processor.py 42, 57) *)

\* The generator is a position in a fixed stream of RngPeriod values; a draw
\* returns the value at the position and moves to the next one.  The state
\* is global to the process: every caller of random.uniform draws from it.
RngPeriod == 4

\* random.uniform(0.75, 1.3), in hundredths
Uniform(state) == 75 + (state * (130 - 75)) \div (RngPeriod - 1)
RngNext(state) == (state + 1) % RngPeriod

----------------------------------------------------------------------------
(* _apply_singing_timing and apply_vocal_effects  (audio_processor.py 37-113) *)

MaxWindows == 1     \* most full 0.3 s windows in a vocal

Requests == {1, 2}

\* segment_len = int(0.3 * sr)
segment_len == (3 * SAMPLE_RATE) \div 10

\* a window of fewer samples than this is passed through
MinStretchLen == 1000

\* the lengths a vocal may have: whole windows, and a last window just below
\* and just at the pass-through limit
VocalLens ==
    {q * segment_len + t : q \in 0..MaxWindows, t \in {0, MinStretchLen - 1, MinStretchLen}}

\* the split without the last, shorter window
RECURSIVE Segments_NoRemainder(_)
Segments_NoRemainder(n) ==
    IF n < segment_len THEN <<>>
    ELSE <<segment_len>> \o Segments_NoRemainder(n - segment_len)

\* the lengths of  y[i:i + segment_len] for i in range(0, len(y), segment_len)
RECURSIVE Segments(_)
Segments(n) ==
    IF n <= 0 THEN <<>>
    ELSE <<Min(n, segment_len)>> \o Segments(n - segment_len)

\* len(librosa.effects.time_stretch(seg, rate)): round(len(seg) / rate)
StretchLen(n, rate) == (2 * n * 100 + rate) \div (2 * rate)

\* a processed segment: its length and the rate it was stretched by
\* (0: passed through)
Passed(n) == [len |-> n, rate |-> 0]
Stretched(n, rate) == [len |-> StretchLen(n, rate), rate |-> rate]

RECURSIVE TotalLen(_)
TotalLen(segs) == IF segs = <<>> THEN 0 ELSE segs[1].len + TotalLen(Tail(segs))

\* the content of a vocal file: the speech it was given, the start of a file
\* whose samples were never all written, or a transformed waveform
Speech(n) == [kind |-> "speech", len |-> n]
Partial == [kind |-> "partial"]
Sung(w) == [kind |-> "sung", segs |-> w.segs, peak |-> w.peak]

\* the largest |sample| the effects chain may leave: silence, the 0.01 of the
\* epsilon, three times full scale
Peaks == {0, AmpUnit \div 100, 3 * AmpUnit}

\* the peak left as it is: the division left out
NormalizedPeak_Skipped(m) == m

\* np.max(np.abs(y_effected)) + 0.01: what the waveform is divided by
VocalDivisor(m) == m + AmpUnit \div 100

\* max(|x|) after  x / (max(|x|) + 0.01)
NormalizedPeak(m) ==
    (2 * m * AmpUnit + VocalDivisor(m)) \div (2 * VocalDivisor(m))

\* the positions inside the try block at which the call made there may raise
MayRaise == {"load", "stretch", "pitch", "effects", "write", "writing"}

\* y, sr = librosa.load(audio_path, sr=SAMPLE_RATE)
VLoad(r) ==
    /\ vpc[r] = "load"
    /\ y' = [y EXCEPT ![r] = [len |-> file[r].len]]
    /\ vpc' = [vpc EXCEPT ![r] = "split"]
    /\ UNCHANGED <<random_seed, random_state, input, file, seg, processed, result,
                   songVars, notRequest>>

\* _apply_singing_timing: the split into segments
VSplit(r) ==
    /\ vpc[r] = "split"
    /\ seg' = [seg EXCEPT ![r] = 0]
    /\ processed' = [processed EXCEPT ![r] = <<>>]
    /\ vpc' = [vpc EXCEPT ![r] = "stretch"]
    /\ UNCHANGED <<random_seed, random_state, input, file, y, result,
                   songVars, notRequest>>

\* _apply_singing_timing: one pass of  for seg in segments
VSegment(r) ==
    /\ vpc[r] = "stretch"
    /\ seg[r] < Len(Segments(y[r].len))
    /\ LET n == Segments(y[r].len)[seg[r] + 1]
       IN  IF n < MinStretchLen
           THEN /\ processed' = [processed EXCEPT ![r] = Append(@, Passed(n))]
                /\ UNCHANGED random_state
           ELSE /\ processed' =
                       [processed EXCEPT ![r] = Append(@, Stretched(n, Uniform(random_state)))]
                /\ random_state' = RngNext(random_state)
    /\ seg' = [seg EXCEPT ![r] = @ + 1]
    /\ UNCHANGED <<random_seed, vpc, input, file, y, result,
                   songVars, notRequest>>

\* return np.concatenate(processed): an empty list raises ValueError, which
\* apply_vocal_effects catches
VConcatenate(r) ==
    /\ vpc[r] = "stretch"
    /\ seg[r] >= Len(Segments(y[r].len))
    /\ IF processed[r] = <<>>
       THEN /\ vpc' = [vpc EXCEPT ![r] = "returned"]
            /\ result' = [result EXCEPT ![r] = FALSE]
            /\ UNCHANGED y
       ELSE /\ vpc' = [vpc EXCEPT ![r] = "pitch"]
            /\ y' = [y EXCEPT ![r] = [len |-> TotalLen(processed[r]), segs |-> processed[r]]]
            /\ UNCHANGED result
    /\ UNCHANGED <<random_seed, random_state, input, file, seg, processed,
                   songVars, notRequest>>

\* librosa.effects.pitch_shift keeps the length
VPitchShift(r) ==
    /\ vpc[r] = "pitch"
    /\ vpc' = [vpc EXCEPT ![r] = "vibrato"]
    /\ UNCHANGED <<random_seed, random_state, input, file, y, seg, processed, result,
                   songVars, notRequest>>

\* a plugin of a Pedalboard: its class and the parameter that tells two
\* plugins of one class apart (threshold_db, gain_db; 0 where there is none)
Plugin(class, db) == [class |-> class, db |-> db]

\* the board with the reverb ahead of the chorus
vocal_board_ReverbFirst ==
    <<Plugin("Compressor", -25), Plugin("Reverb", 0), Plugin("Chorus", 0),
      Plugin("Compressor", -18), Plugin("Gain", 3)>>

\* 95-101: the list the Pedalboard is built from; a board runs its plugins
\* in the order of the list, each on the output of the one before
vocal_board ==
    <<Plugin("Compressor", -25), Plugin("Chorus", 0), Plugin("Reverb", 0),
      Plugin("Compressor", -18), Plugin("Gain", 3)>>

\* y_shifted * (1 + 0.02 * sin(phase_mod)); the board is built
VVibrato(r) ==
    /\ vpc[r] = "vibrato"
    /\ y' = [y EXCEPT ![r] = [len |-> @.len, segs |-> @.segs, applied |-> <<>>]]
    /\ vpc' = [vpc EXCEPT ![r] = "effects"]
    /\ UNCHANGED <<random_seed, random_state, input, file, seg, processed, result,
                   songVars, notRequest>>

\* vocal_board(y_vibrato, sr): the next plugin of the board processes the
\* waveform; the output of the last one has any peak
VEffects(r) ==
    /\ vpc[r] = "effects"
    /\ LET k == Len(y[r].applied) + 1
       IN  IF k < Len(vocal_board)
           THEN /\ y' = [y EXCEPT ![r].applied = Append(@, vocal_board[k])]
                /\ vpc' = vpc
           ELSE /\ \E m \in Peaks :
                       y' = [y EXCEPT ![r] = [len |-> @.len, segs |-> @.segs,
                                              applied |-> Append(@.applied, vocal_board[k]),
                                              peak |-> m]]
                /\ vpc' = [vpc EXCEPT ![r] = "normalize"]
    /\ UNCHANGED <<random_seed, random_state, input, file, seg, processed, result,
                   songVars, notRequest>>

\* y_effected / (np.max(np.abs(y_effected)) + 0.01)
VNormalize(r) ==
    /\ vpc[r] = "normalize"
    /\ y' = [y EXCEPT ![r].peak = NormalizedPeak(@)]
    /\ vpc' = [vpc EXCEPT ![r] = "write"]
    /\ UNCHANGED <<random_seed, random_state, input, file, seg, processed, result,
                   songVars, notRequest>>

\* sf.write(audio_path, ...): the file is opened for writing, which empties it
VWriteOpen(r) ==
    /\ vpc[r] = "write"
    /\ file' = [file EXCEPT ![r] = Partial]
    /\ vpc' = [vpc EXCEPT ![r] = "writing"]
    /\ UNCHANGED <<random_seed, random_state, input, y, seg, processed, result,
                   songVars, notRequest>>

\* sf.write: the samples are written and the file closed; return True
VWriteData(r) ==
    /\ vpc[r] = "writing"
    /\ file' = [file EXCEPT ![r] = Sung(y[r])]
    /\ vpc' = [vpc EXCEPT ![r] = "returned"]
    /\ result' = [result EXCEPT ![r] = TRUE]
    /\ UNCHANGED <<random_seed, random_state, input, y, seg, processed,
                   songVars, notRequest>>

\* a call inside the try block raises:  except Exception: return False.
\* Inside the timing loop the calls that may raise are those of a pass of the
\* loop; what np.concatenate does after the loop is VConcatenate.
VRaise(r) ==
    /\ vpc[r] \in MayRaise
    /\ vpc[r] = "stretch" => seg[r] < Len(Segments(y[r].len))
    /\ vpc' = [vpc EXCEPT ![r] = "returned"]
    /\ result' = [result EXCEPT ![r] = FALSE]
    /\ UNCHANGED <<random_seed, random_state, input, file, y, seg, processed,
                   songVars, notRequest>>

\* two requests, each about to call apply_vocal_effects on its own file
InitVocal ==
    /\ random_seed \in 0..(RngPeriod - 1)
    /\ random_state = random_seed
    /\ input \in [Requests -> {Speech(n) : n \in VocalLens}]
    /\ file = input
    /\ vpc = [r \in Requests |-> "load"]
    /\ y = [r \in Requests |-> [len |-> 0]]
    /\ seg = [r \in Requests |-> 0]
    /\ processed = [r \in Requests |-> <<>>]
    /\ result = [r \in Requests |-> None]
    /\ IdleSong
    /\ IdleDuck
    /\ IdleResolver
    /\ IdleTone
    /\ IdleBand
    /\ IdlePipeline
    /\ IdleShots

NextVocal ==
    \/ \E r \in Requests : VLoad(r)
    \/ \E r \in Requests : VSplit(r)
    \/ \E r \in Requests : VSegment(r)
    \/ \E r \in Requests : VConcatenate(r)
    \/ \E r \in Requests : VPitchShift(r)
    \/ \E r \in Requests : VVibrato(r)
    \/ \E r \in Requests : VEffects(r)
    \/ \E r \in Requests : VNormalize(r)
    \/ \E r \in Requests : VWriteOpen(r)
    \/ \E r \in Requests : VWriteData(r)
    \/ \E r \in Requests : VRaise(r)

\* two requests run apply_vocal_effects in parallel, one thread each
SpecVocal == InitVocal /\ [][NextVocal]_vars

----------------------------------------------------------------------------
(* Claims on the vocal transform *)

\* _apply_singing_timing run by itself on segments of the given lengths,
\* from a given state of the generator
RECURSIVE TimingFrom(_, _)
TimingFrom(lens, state) ==
    IF lens = <<>> THEN <<>>
    ELSE IF lens[1] < MinStretchLen
         THEN <<Passed(lens[1])>> \o TimingFrom(Tail(lens), state)
         ELSE <<Stretched(lens[1], Uniform(state))>> \o TimingFrom(Tail(lens), RngNext(state))

\* request r has returned True: its transformed vocal is in its file
Transformed(r) == vpc[r] = "returned" /\ result[r] = TRUE

\* C3: the core shares no mutable state between invocations: a request run
\* in parallel with another, in any interleaving, writes the waveform it
\* writes when it runs alone in the process.
C3_ParallelAsAlone ==
    \A r \in Requests :
        Transformed(r) =>
            file[r].segs = TimingFrom(Segments(input[r].len), random_seed)

\* C4: the stretch factors depend on nothing but the seed and the input
\* waveform: two runs of the timing transform on the same input, with the
\* random source seeded the same, stretch every window by the same factor
\* and give the same output length.
C4_SeededRunsAgree ==
    \A r1, r2 \in Requests :
        (Transformed(r1) /\ Transformed(r2) /\ input[r1] = input[r2]) =>
            file[r1].segs = file[r2].segs

\* C5: when a stage of apply_vocal_effects fails the function returns False
\* and the file holds what it held before the call; the file is only ever
\* replaced by a complete transformed waveform.
C5_FailureLeavesFile ==
    \A r \in Requests :
        vpc[r] = "returned" =>
            /\ result[r] = FALSE => file[r] = input[r]
            /\ file[r] # input[r] => file[r].kind = "sung"

\* request r is inside the timing loop: y[r] is the waveform it was given
InTiming(r) == vpc[r] = "stretch"

\* C18: a window stretched with factor f changes its sample count in the
\* direction of f: a factor below 1 gives fewer samples than the window had,
\* a factor above 1 gives more.
C18_StretchFollowsFactor ==
    \A r \in Requests :
        InTiming(r) =>
            \A k \in 1..Len(processed[r]) :
                LET n == Segments(y[r].len)[k]
                    w == processed[r][k]
                IN  /\ (w.rate # 0 /\ w.rate < 100) => w.len < n
                    /\ w.rate > 100 => w.len > n

----------------------------------------------------------------------------
(* sing_lyrics after the vocal transform  (main.py 445-458) and
   mix_and_master  (audio_processor.py 294-347) *)

\* a sample as a fraction num / den of full scale
Frac(n, d) == [num |-> n, den |-> d]

\* the quotient rounded toward zero, as a float is cast to an integer
Trunc(n, d) == IF n >= 0 THEN n \div d ELSE -((-n) \div d)

\* |v| of a fraction with a positive denominator
Abs(n) == IF n < 0 THEN -n ELSE n

\* np.max(np.abs(a)) of an array of integers
RECURSIVE ArrMaxAbs(_)
ArrMaxAbs(a) == IF a = <<>> THEN 0 ELSE Max(Abs(a[1].val), ArrMaxAbs(Tail(a)))

\* the sample values the mastering chain may leave, in hundredths of full
\* scale: beyond full scale on either side, the smallest value, silence
MixAmps == {-3 * AmpUnit, -(AmpUnit \div 100), 0, AmpUnit \div 2, 2 * AmpUnit}

\* the arrays of n samples the mastering chain may return: one value
\* throughout, or a first sample that differs from the rest
MixArrays(n) ==
    IF n = 0 THEN {<<>>}
    ELSE {ArrNorm(<<[val |-> a, len |-> 1], [val |-> b, len |-> n - 1]>>) :
              a \in MixAmps, b \in MixAmps}

\* the full scale of the 16-bit samples written
Int16Scale == 32767

\* mixed / peak * 0.95, as a fraction of full scale, with the 0.95 left out
Normalized_NoHeadroom(x, m) == Frac(x, m)

\* mixed / peak * 0.95, as a fraction of full scale
Normalized(x, m) == Frac(95 * x, 100 * m)

\* np.clip(v, -1.0, 1.0)
Clip(v) ==
    IF v.num > v.den THEN Frac(1, 1)
    ELSE IF v.num < -v.den THEN Frac(-1, 1)
    ELSE v

\* np.int16(v * 32767)
Quantize(v) == Trunc(v.num * Int16Scale, v.den)

\* the scaling done whatever the peak is:  mixed / peak * 0.95
ArrNormalized_Unguarded(a, m) ==
    ArrNorm([j \in 1..Len(a) |-> [val |-> Normalized(a[j].val, m), len |-> a[j].len]])

\* the three operations, applied to every sample of an array
ArrNormalized(a, m) ==
    ArrNorm([j \in 1..Len(a) |->
                [val |-> IF m > 0 THEN Normalized(a[j].val, m) ELSE Frac(a[j].val, AmpUnit),
                 len |-> a[j].len]])
ArrClip(a) == ArrNorm([j \in 1..Len(a) |-> [val |-> Clip(a[j].val), len |-> a[j].len]])
ArrQuantize(a) ==
    ArrNorm([j \in 1..Len(a) |-> [val |-> Quantize(a[j].val), len |-> a[j].len]])

\* main.py 450-452: the vocal file is read back for its duration; a file
\* that is not a complete WAV file makes wavfile.read raise
SReadVocal(r) ==
    /\ vpc[r] = "returned"
    /\ IF file[r].kind = "partial"
       THEN /\ vpc' = [vpc EXCEPT ![r] = "failed"]
            /\ UNCHANGED vlen
       ELSE /\ vpc' = [vpc EXCEPT ![r] = "background"]
            /\ vlen' = [vlen EXCEPT ![r] =
                            IF file[r].kind = "sung" THEN TotalLen(file[r].segs)
                            ELSE file[r].len]
    /\ UNCHANGED <<music, mixed, peak, out, vocalVars_but_vpc, notRequest>>

\* main.py 453-454: generate_background_music(vocal_duration, ...) returns
\* int(sr * (len(vocal_data) / sr)) samples, which the division's rounding
\* makes len(vocal_data) or one less
SBackground(r) ==
    /\ vpc[r] = "background"
    /\ \E n \in {vlen[r], Max(vlen[r] - 1, 0)} : music' = [music EXCEPT ![r] = n]
    /\ vpc' = [vpc EXCEPT ![r] = "mm_load"]
    /\ UNCHANGED <<vlen, mixed, peak, out, vocalVars_but_vpc, notRequest>>

\* mix_and_master 301-310: the vocal file exists and is read again
MLoad(r) ==
    /\ vpc[r] = "mm_load"
    /\ vpc' = [vpc EXCEPT ![r] = "mm_match"]
    /\ UNCHANGED <<vlen, music, mixed, peak, out, vocalVars_but_vpc, notRequest>>

\* mix_and_master 312-316: the shorter buffer is zero-padded
MMatch(r) ==
    /\ vpc[r] = "mm_match"
    /\ vlen' = [vlen EXCEPT ![r] = Max(vlen[r], music[r])]
    /\ music' = [music EXCEPT ![r] = Max(vlen[r], music[r])]
    /\ vpc' = [vpc EXCEPT ![r] = "mm_master"]
    /\ UNCHANGED <<mixed, peak, out, vocalVars_but_vpc, notRequest>>

\* mix_and_master 318-337: sidechain, EQ, the mix and the mastering board;
\* the board returns an array of the length of its input
MMaster(r) ==
    /\ vpc[r] = "mm_master"
    /\ \E a \in MixArrays(music[r]) : mixed' = [mixed EXCEPT ![r] = a]
    /\ vpc' = [vpc EXCEPT ![r] = "mm_normalize"]
    /\ UNCHANGED <<vlen, music, peak, out, vocalVars_but_vpc, notRequest>>

\* mix_and_master 340-342: np.max of an empty array raises ValueError
MNormalize(r) ==
    /\ vpc[r] = "mm_normalize"
    /\ IF mixed[r] = <<>>
       THEN /\ vpc' = [vpc EXCEPT ![r] = "failed"]
            /\ UNCHANGED <<mixed, peak>>
       ELSE LET m == ArrMaxAbs(mixed[r])
            IN  /\ peak' = [peak EXCEPT ![r] = m]
                /\ mixed' = [mixed EXCEPT ![r] = ArrNormalized(@, m)]
                /\ vpc' = [vpc EXCEPT ![r] = "mm_clip"]
    /\ UNCHANGED <<vlen, music, out, vocalVars_but_vpc, notRequest>>

\* mix_and_master 343
MClip(r) ==
    /\ vpc[r] = "mm_clip"
    /\ mixed' = [mixed EXCEPT ![r] = ArrClip(@)]
    /\ vpc' = [vpc EXCEPT ![r] = "mm_quantize"]
    /\ UNCHANGED <<vlen, music, peak, out, vocalVars_but_vpc, notRequest>>

\* mix_and_master 344
MQuantize(r) ==
    /\ vpc[r] = "mm_quantize"
    /\ mixed' = [mixed EXCEPT ![r] = ArrQuantize(@)]
    /\ vpc' = [vpc EXCEPT ![r] = "mm_write"]
    /\ UNCHANGED <<vlen, music, peak, out, vocalVars_but_vpc, notRequest>>

\* mix_and_master 346-347
MWrite(r) ==
    /\ vpc[r] = "mm_write"
    /\ out' = [out EXCEPT ![r] = [kind |-> "pcm16", samples |-> mixed[r]]]
    /\ vpc' = [vpc EXCEPT ![r] = "done"]
    /\ UNCHANGED <<vlen, music, mixed, peak, vocalVars_but_vpc, notRequest>>

\* one request: request 1 is about to call apply_vocal_effects
InitSong ==
    /\ random_seed \in 0..(RngPeriod - 1)
    /\ random_state = random_seed
    /\ input \in [Requests -> {Speech(n) : n \in VocalLens}]
    /\ input[2] = Speech(0)
    /\ file = input
    /\ vpc = [r \in Requests |-> IF r = 1 THEN "load" ELSE "absent"]
    /\ y = [r \in Requests |-> [len |-> 0]]
    /\ seg = [r \in Requests |-> 0]
    /\ processed = [r \in Requests |-> <<>>]
    /\ result = [r \in Requests |-> None]
    /\ vlen = [r \in Requests |-> 0]
    /\ music = [r \in Requests |-> 0]
    /\ mixed = [r \in Requests |-> <<>>]
    /\ peak = [r \in Requests |-> 0]
    /\ out = [r \in Requests |-> None]
    /\ IdleDuck
    /\ IdleResolver
    /\ IdleTone
    /\ IdleBand
    /\ IdlePipeline
    /\ IdleShots

NextSong ==
    \/ NextVocal
    \/ \E r \in Requests : SReadVocal(r)
    \/ \E r \in Requests : SBackground(r)
    \/ \E r \in Requests : MLoad(r)
    \/ \E r \in Requests : MMatch(r)
    \/ \E r \in Requests : MMaster(r)
    \/ \E r \in Requests : MNormalize(r)
    \/ \E r \in Requests : MClip(r)
    \/ \E r \in Requests : MQuantize(r)
    \/ \E r \in Requests : MWrite(r)

\* one request of sing_lyrics, from the vocal transform to the mixed file
SpecSong == InitSong /\ [][NextSong]_vars

----------------------------------------------------------------------------
(* Claims on normalization and persistence *)

\* mix_and_master has written the file of request r
MixWritten(r) == vpc[r] = "done" /\ out[r].kind = "pcm16"

\* C9: when the peak of the mix after the mastering chain is above 0, the
\* largest |sample| written by mix_and_master is 0.95 of full scale to within
\* one quantization step, and no written sample is outside [-32767, 32767].
C9_PeakAtHeadroom ==
    \A r \in Requests :
        MixWritten(r) =>
            LET top == ArrMaxAbs(out[r].samples)
            IN  /\ top <= Int16Scale
                /\ peak[r] > 0 => Abs(100 * top - 95 * Int16Scale) <= 100

\* a mix whose first sample was three times full scale, negative, and is
\* written as -0.95 of full scale
C9_Witness ==
    /\ MixWritten(1)
    /\ peak[1] = 3 * AmpUnit
    /\ out[1].samples[1].val = -Trunc(95 * Int16Scale, 100)
    /\ Len(out[1].samples) = 2

\* request r steps into the persistence of a waveform: the write of
\* apply_vocal_effects, the quantization and write of mix_and_master
EntersPersistence(r) ==
    /\ vpc'[r] \in {"write", "mm_quantize"}
    /\ vpc[r] # vpc'[r]

\* every sample a file of the core holds is within [-1, 1]
PersistedInRange ==
    \A r \in Requests :
        /\ file[r].kind = "sung" => file[r].peak <= AmpUnit
        /\ out[r].kind = "pcm16" => ArrMaxAbs(out[r].samples) <= Int16Scale

\* C10 as stated: every write of a waveform to a file is immediately preceded
\* by a clamp of all samples to [-1, 1], and no sample outside [-1, 1]
\* reaches a file.
C10_ClampBeforeEveryWrite ==
    [][/\ \A r \in Requests : EntersPersistence(r) => vpc[r] = "mm_clip"
       /\ PersistedInRange']_vars

\* C10, amended: every write of a waveform to a file is immediately preceded
\* by a step that bounds all samples to [-1, 1]: the clamp in mix_and_master,
\* the division by max|x| + 0.01 in apply_vocal_effects (which has no clamp);
\* no sample outside [-1, 1] reaches a file.
C10_BoundedBeforeEveryWrite ==
    [][/\ \A r \in Requests :
              EntersPersistence(r) => vpc[r] \in {"mm_clip", "normalize"}
       /\ PersistedInRange']_vars

\* both files of a request are written, the vocal from a waveform that came
\* out of the effects chain at three times full scale
C10_Witness ==
    /\ MixWritten(1)
    /\ file[1].kind = "sung"
    /\ file[1].peak = AmpUnit
    /\ ArrMaxAbs(out[1].samples) > 0

----------------------------------------------------------------------------
(* _generate_instrument  (audio_processor.py 116-162) *)

\* Envelope values are integers in thousandths (EnvUnit = 1.0).  The envelope
\* is a sequence of pieces [a, b, len]: the len samples of np.linspace(a, b,
\* len); a piece with a = b is a constant stretch.
EnvUnit == 1000

\* sample j (0-based) of np.linspace(a, b, len), rounded to the nearest
\* thousandth; a single sample is a
LinValue(p, j) ==
    IF p.len = 1 THEN p.a
    ELSE p.a + (2 * (p.b - p.a) * j + (p.len - 1)) \div (2 * (p.len - 1))

\* np.linspace(a, b, n)
LinSpace(a, b, n) == IF n <= 0 THEN <<>> ELSE <<[a |-> a, b |-> b, len |-> n]>>

RECURSIVE LinLen(_)
LinLen(e) == IF e = <<>> THEN 0 ELSE e[1].len + LinLen(Tail(e))

\* e[:n]
RECURSIVE LinTake(_, _)
LinTake(e, n) ==
    IF n <= 0 \/ e = <<>> THEN <<>>
    ELSE IF e[1].len <= n THEN <<e[1]>> \o LinTake(Tail(e), n - e[1].len)
    ELSE <<[a |-> e[1].a, b |-> LinValue(e[1], n - 1), len |-> n]>>

\* e[n:]
RECURSIVE LinDrop(_, _)
LinDrop(e, n) ==
    IF e = <<>> THEN <<>>
    ELSE IF n <= 0 THEN e
    ELSE IF e[1].len <= n THEN LinDrop(Tail(e), n - e[1].len)
    ELSE <<[a |-> LinValue(e[1], n), b |-> LinValue(e[1], e[1].len - 1),
            len |-> e[1].len - n]>> \o Tail(e)

\* e[-1]
LinLast(e) == LinValue(e[Len(e)], e[Len(e)].len - 1)

\* e[lo:hi] = rhs may be done: the shapes agree, or rhs has one element,
\* which is broadcast
Broadcasts(lo, hi, rhs) == LinLen(rhs) = hi - lo \/ LinLen(rhs) = 1

\* e[lo:hi] = rhs, for 0 <= lo <= hi <= len(e)
LinAssign(e, lo, hi, rhs) ==
    LET new == IF LinLen(rhs) = hi - lo THEN rhs
               ELSE LinSpace(rhs[1].a, rhs[1].a, hi - lo)
    IN  LinTake(e, lo) \o new \o LinDrop(e, hi)

\* int(sr * 0.02), int(sr * 0.05), int(sr * 0.1)
attack_samples == (2 * SAMPLE_RATE) \div 100
decay_samples == (5 * SAMPLE_RATE) \div 100
release_samples == (10 * SAMPLE_RATE) \div 100
sustain_level == (7 * EnvUnit) \div 10

\* a slice assignment whose shapes do not agree raises ValueError
Raised == "raised"

\* the two assignments of a ramp to a slice can be done on n samples
AttackFits(n) ==
    attack_samples > 0 =>
        Broadcasts(0, Min(attack_samples, n), LinSpace(0, EnvUnit, attack_samples))
ReleaseFits(n) ==
    release_samples > 0 =>
        Broadcasts(Max(n - release_samples, 0), n,
                   LinSpace(sustain_level, 0, release_samples))

\* 119-150: num_samples = int(sr * duration), the signal of that many
\* samples, envelope = np.ones_like(signal)
ToneSignal ==
    /\ ipc = "signal"
    /\ num_samples' = (SAMPLE_RATE * duration) \div 1000
    /\ envelope' = LinSpace(EnvUnit, EnvUnit, num_samples')
    /\ ipc' = "attack"
    /\ UNCHANGED <<duration, notTone>>

\* 151-152: envelope[:attack_samples] = np.linspace(0, 1, attack_samples)
ToneAttack ==
    /\ ipc = "attack"
    /\ LET hi  == Min(attack_samples, num_samples)
           rhs == LinSpace(0, EnvUnit, attack_samples)
       IN  IF attack_samples > 0
           THEN IF AttackFits(num_samples)
                THEN /\ envelope' = LinAssign(envelope, 0, hi, rhs)
                     /\ ipc' = "decay"
                ELSE /\ ipc' = Raised
                     /\ UNCHANGED envelope
           ELSE /\ ipc' = "decay"
                /\ UNCHANGED envelope
    /\ UNCHANGED <<duration, num_samples, notTone>>

\* 153-154: the decay, when attack and decay are shorter than the note
ToneDecay ==
    /\ ipc = "decay"
    /\ IF decay_samples > 0 /\ attack_samples + decay_samples < LinLen(envelope)
       THEN envelope' = LinAssign(envelope, attack_samples, attack_samples + decay_samples,
                                  LinSpace(EnvUnit, sustain_level, decay_samples))
       ELSE UNCHANGED envelope
    /\ ipc' = "sustain"
    /\ UNCHANGED <<duration, num_samples, notTone>>

\* 155-158: envelope[sustain_start:sustain_end] = sustain_level
ToneSustain ==
    /\ ipc = "sustain"
    /\ LET sustain_start == attack_samples + decay_samples
           sustain_end   == LinLen(envelope) - release_samples
       IN  IF sustain_start < sustain_end
           THEN envelope' = LinAssign(envelope, sustain_start, sustain_end,
                                      LinSpace(sustain_level, sustain_level, 1))
           ELSE UNCHANGED envelope
    /\ ipc' = "release"
    /\ UNCHANGED <<duration, num_samples, notTone>>

\* 159-160: envelope[-release_samples:] = np.linspace(sustain_level, 0,
\* release_samples); the slice starts at index 0 when the array is shorter
ToneRelease ==
    /\ ipc = "release"
    /\ LET n   == LinLen(envelope)
           lo  == Max(n - release_samples, 0)
           rhs == LinSpace(sustain_level, 0, release_samples)
       IN  IF release_samples > 0
           THEN IF ReleaseFits(n)
                THEN /\ envelope' = LinAssign(envelope, lo, n, rhs)
                     /\ ipc' = "multiply"
                ELSE /\ ipc' = Raised
                     /\ UNCHANGED envelope
           ELSE /\ ipc' = "multiply"
                /\ UNCHANGED envelope
    /\ UNCHANGED <<duration, num_samples, notTone>>

\* 162: return signal * envelope
ToneReturn ==
    /\ ipc = "multiply"
    /\ ipc' = "returned"
    /\ UNCHANGED <<duration, num_samples, envelope, notTone>>

MaxNoteMs == 120    \* longest of the short notes, in milliseconds

\* the note durations: every short one, and those generate_background_music
\* asks for (2 s melody notes, 4 s chords, two beats of bass at each tempo)
NoteDurations ==
    (1..MaxNoteMs) \cup {2000, 4000} \cup {120000 \div tempos[k].bpm : k \in 1..Len(tempos)}

InitTone ==
    /\ duration \in NoteDurations
    /\ num_samples = 0
    /\ envelope = <<>>
    /\ ipc = "signal"
    /\ IdleDuck
    /\ IdleResolver
    /\ IdleVocal
    /\ IdleSong
    /\ IdleBand
    /\ IdlePipeline
    /\ IdleShots

NextTone ==
    \/ ToneSignal
    \/ ToneAttack
    \/ ToneDecay
    \/ ToneSustain
    \/ ToneRelease
    \/ ToneReturn

\* one call of _generate_instrument at the sample rate of the core
SpecTone == InitTone /\ [][NextTone]_vars

----------------------------------------------------------------------------
(* Claims on the note envelope *)

\* C12: _generate_instrument returns, without raising, for every positive
\* duration, however short; the tone has int(sr * duration) samples and the
\* last sample of its envelope is 0.
C12_ShortNotesCollapse ==
    /\ ipc # Raised
    /\ ipc = "returned" =>
           /\ LinLen(envelope) = num_samples
           /\ num_samples > 0 => LinLast(envelope) = 0

----------------------------------------------------------------------------
(* generate_background_music  (audio_processor.py 165-267) *)

MaxCalls == 2       \* calls of generate_background_music in one process

\* Durations are whole numbers of tenths of a sample period, so that a
\* duration given in milliseconds (a round number of seconds) and one given
\* as a number of samples over the sample rate (main.py: len(vocal_data) /
\* sr) are both exact.
Second == 10 * SAMPLE_RATE
SamplePeriod == Second \div SAMPLE_RATE
Ms(m) == (Second \div 1000) * m
Samples(n) == SamplePeriod * n

\* Durations whose product with 44100 is a whole number mathematically but
\* falls just below it in IEEE double arithmetic, so that int() gives one
\* less: 44100 * 0.35 = 15434.999999999998, 44100 * 2.3 = 101429.99999999999,
\* 44100 * (176401 / 44100) = 176400.99999999997
RoundsDown == {Ms(350), Ms(2300), Samples(176401)}

\* the durations asked for
Durations ==
    {Ms(1), Ms(350), Ms(1000), Ms(2300), Ms(3000), Ms(3001), Ms(4000), Ms(4500),
     Ms(10500), Samples(132301), Samples(147000), Samples(176401)}

\* the tempos get_tempo_for_genre returns
Tempos == {tempos[k].bpm : k \in 1..Len(tempos)}

Moods == {Str(<<"e", "n", "e", "r", "g", "e", "t", "i", "c">>), Str(<<"x">>)}

\* int(sr * duration_s)
NumSamples(d) ==
    d \div SamplePeriod - (IF d \in RoundsDown THEN 1 ELSE 0)

\* int(x) for a float x computed as num / den: the quotient rounded toward
\* zero; when num / den is a whole number the float may lie just below it
IntOf(num, den) ==
    {num \div den} \cup (IF num % den = 0 /\ num > 0 THEN {num \div den - 1} ELSE {})

\* int(np.ceil(num / den))
Ceil(num, den) == (num + den - 1) \div den

\* the length of np.arange(0, stop, step) for stop / step = num / den: the
\* quotient rounded up; when num / den is a whole number the float quotient
\* may lie just above it, which gives one element more
ArangeLen(num, den) ==
    {Ceil(num, den)} \cup (IF num % den = 0 /\ num > 0 THEN {num \div den + 1} ELSE {})

\* len(a[lo:hi]) for an array of n samples and 0 <= lo
SliceLen(n, lo, hi) == Max(0, Min(hi, n) - Min(lo, n))

\* end = start + len(note): the end of the slice not held to the buffer
SliceEnd_Unclamped(start, n, total) == start + n

\* end = min(start + len(note), num_samples)
SliceEnd(start, n, total) == Min(start + n, total)

\* track[start:end] += rhs[:end - start] can be done: the shapes agree, or
\* the right-hand side has one element
Adds(trackLen, start, end, rhsLen) ==
    LET lhs == SliceLen(trackLen, start, end)
        rhs == SliceLen(rhsLen, 0, end - start)
    IN  lhs = rhs \/ rhs = 1

\* len(_generate_instrument(freq, duration, sr, ...)) for a duration of
\* num / den seconds, and whether the call returns
ToneSamples(num, den) == (SAMPLE_RATE * num) \div den
ToneFits(n) == AttackFits(n) /\ ReleaseFits(n)

\* one pass of a loop that lays notes of noteLen samples: the note is
\* generated, then added to the track from start
NoteLaid(trackLen, start, noteLen) ==
    /\ ToneFits(noteLen)
    /\ LET end == SliceEnd(start, noteLen, gbm.num_samples)
       IN  end - start > 0 => Adds(trackLen, start, end, noteLen)

\* 167-175: num_samples, t, the scale, melody = np.zeros(num_samples)
GBegin ==
    /\ gpc = "start"
    /\ gbm' = [num_samples |-> NumSamples(duration_s), i |-> 0,
               melody |-> NumSamples(duration_s), pad |-> 0, bass |-> 0,
               kick |-> 0, snare |-> 0, hihat |-> 0, music |-> 0, noise |-> -1,
               hit |-> [kick |-> 0, snare |-> 0, hihat |-> <<0, 0>>],
               note |-> <<>>, laid |-> 0, faded |-> <<>>]
    /\ gpc' = "melody"
    /\ UNCHANGED <<duration_s, tempo_bpm, mood_arg, np_random, returned, notBand>>

\* a Python list times n
RECURSIVE ListTimes(_, _)
ListTimes(list, n) == IF n <= 0 THEN <<>> ELSE list \o ListTimes(list, n - 1)

\* the scale, not repeated
MelodyList_OnePass == get_melody_freqs_for_mood(mood_arg).melody_freqs

\* 177: melody_freqs * int(np.ceil(duration_s / (len(melody_freqs) * note_duration)))
MelodyList ==
    ListTimes(get_melody_freqs_for_mood(mood_arg).melody_freqs,
              Ceil(duration_s, Len(get_melody_freqs_for_mood(mood_arg).melody_freqs) * 2 * Second))

\* the notes the melody loop enumerates
MelodyNotes == Len(MelodyList)

\* the sine partials of an instrument, as multiples of freq  (123-142)
Partials(instrument_type) ==
    CASE instrument_type = "synth" -> <<1, 2, 3, 4>>
      [] instrument_type = "bass" -> <<1, 2, 4>>
      [] OTHER -> <<1, 2, 3, 5, 7>>

\* the lowest partial of a tone of _generate_instrument
Fundamental(freq, instrument_type) ==
    Frac(freq.num * Partials(instrument_type)[1], freq.den)

\* a note laid on a track: the tone generated and the slice it was added to
Note(freq, instrument_type, start, generated) ==
    [freq |-> freq, fundamental |-> Fundamental(freq, instrument_type),
     start |-> start, generated |-> generated,
     len |-> SliceEnd(start, generated, gbm.num_samples) - start]

\* 177-184: one pass of the melody loop (2 s notes)
GMelodyNote ==
    /\ gpc = "melody"
    /\ gbm.i < MelodyNotes
    /\ gbm.i * 2 * SAMPLE_RATE < gbm.num_samples
    /\ IF NoteLaid(gbm.melody, gbm.i * 2 * SAMPLE_RATE, ToneSamples(2, 1))
       THEN /\ gbm' = [gbm EXCEPT !.i = @ + 1,
                                  !.laid = @ + 1,
                                  !.note = Note(Frac(MelodyList[gbm.i + 1], 1), "synth",
                                                gbm.i * 2 * SAMPLE_RATE, ToneSamples(2, 1))]
            /\ gpc' = gpc
       ELSE /\ gpc' = Raised
            /\ UNCHANGED gbm
    /\ UNCHANGED <<duration_s, tempo_bpm, mood_arg, np_random, returned, notBand>>

\* the melody loop ends or breaks; 187: pad = np.zeros(num_samples)
GMelodyDone ==
    /\ gpc = "melody"
    /\ gbm.i >= MelodyNotes \/ gbm.i * 2 * SAMPLE_RATE >= gbm.num_samples
    /\ gbm' = [gbm EXCEPT !.i = 0, !.pad = gbm.num_samples]
    /\ gpc' = "pad"
    /\ UNCHANGED <<duration_s, tempo_bpm, mood_arg, np_random, returned, notBand>>

\* 189-201: one pass of the chord loop (two 4 s tones, summed)
GPadChord ==
    /\ gpc = "pad"
    /\ gbm.i < Ceil(duration_s, 4 * Second)
    /\ gbm.i * 4 * SAMPLE_RATE < gbm.num_samples
    /\ IF NoteLaid(gbm.pad, gbm.i * 4 * SAMPLE_RATE, ToneSamples(4, 1))
       THEN /\ gbm' = [gbm EXCEPT !.i = @ + 1]
            /\ gpc' = gpc
       ELSE /\ gpc' = Raised
            /\ UNCHANGED gbm
    /\ UNCHANGED <<duration_s, tempo_bpm, mood_arg, np_random, returned, notBand>>

\* the chord loop ends or breaks; 204: bass = np.zeros(num_samples)
GPadDone ==
    /\ gpc = "pad"
    /\ gbm.i >= Ceil(duration_s, 4 * Second) \/ gbm.i * 4 * SAMPLE_RATE >= gbm.num_samples
    /\ gbm' = [gbm EXCEPT !.i = 0, !.bass = gbm.num_samples]
    /\ gpc' = "bass"
    /\ UNCHANGED <<duration_s, tempo_bpm, mood_arg, np_random, returned, notBand>>

\* a quarter of the base frequency
BassFreq_Quarter(base_freq) == Frac(base_freq, 4)

\* 209: base_freq * 0.5
BassFreq(base_freq) == Frac(base_freq, 2)

\* 206-213: one pass of the bass loop; a note lasts two beats, 120 / tempo_bpm
\* seconds
GBassNote ==
    /\ gpc = "bass"
    /\ gbm.i < Ceil(duration_s * tempo_bpm, 120 * Second)
    /\ gbm.i * 120 * SAMPLE_RATE < gbm.num_samples * tempo_bpm
    /\ \E start \in IntOf(gbm.i * 120 * SAMPLE_RATE, tempo_bpm) :
           IF NoteLaid(gbm.bass, start, ToneSamples(120, tempo_bpm))
           THEN /\ gbm' = [gbm EXCEPT !.i = @ + 1,
                                      !.note = Note(BassFreq(get_melody_freqs_for_mood(mood_arg).base_freq),
                                                    "bass", start, ToneSamples(120, tempo_bpm))]
                /\ gpc' = gpc
           ELSE /\ gpc' = Raised
                /\ UNCHANGED gbm
    /\ UNCHANGED <<duration_s, tempo_bpm, mood_arg, np_random, returned, notBand>>

\* the bass loop ends or breaks; 216-219: the drum tracks and beat_times
GBassDone ==
    /\ gpc = "bass"
    /\ \/ gbm.i >= Ceil(duration_s * tempo_bpm, 120 * Second)
       \/ gbm.i * 120 * SAMPLE_RATE >= gbm.num_samples * tempo_bpm
    /\ gbm' = [gbm EXCEPT !.i = 0, !.kick = gbm.num_samples,
                          !.snare = gbm.num_samples, !.hihat = gbm.num_samples]
    /\ gpc' = "drums"
    /\ UNCHANGED <<duration_s, tempo_bpm, mood_arg, np_random, returned, notBand>>

\* the samples of a drum hit of d samples that starts at s: the linspace of
\* length min(s + d, num_samples) - s, added to track[s:that end]
HitLen(s, d) == IF s < gbm.num_samples THEN Min(s + d, gbm.num_samples) - s ELSE 0
HitAdds(trackLen, s, d) ==
    s < gbm.num_samples =>
        SliceLen(trackLen, s, Min(s + d, gbm.num_samples)) = HitLen(s, d)

\* int(0.15 * sr), int(0.12 * sr), int(0.05 * sr)
kd == (15 * SAMPLE_RATE) \div 100
sd == (12 * SAMPLE_RATE) \div 100
hd == (5 * SAMPLE_RATE) \div 100

\* the snare on the even-indexed beats
SnareBeat_Even(k) == k % 2 = 0

\* 233: i % 2 == 1
SnareBeat(k) == k % 2 = 1

\* 219: len(beat_times); beat_times[k] is k * beat_duration_s
BeatCounts == ArangeLen(duration_s * tempo_bpm, 60 * Second)

\* 221-249: one pass of the beat loop: the kick, the snare on every second
\* beat, two hi-hats; each hit draws its noise from np.random.  gbm.hit
\* holds the samples each hit of the pass has added to its track.
GBeat ==
    /\ gpc = "drums"
    /\ \E count \in BeatCounts : gbm.i < count
    /\ \E bs \in IntOf(gbm.i * 60 * SAMPLE_RATE, tempo_bpm),
          hs \in IntOf((2 * gbm.i + 1) * 30 * SAMPLE_RATE, tempo_bpm) :
           LET kickN  == HitLen(bs, kd)
               snareN == IF SnareBeat(gbm.i) THEN HitLen(bs, sd) ELSE 0
               hatN   == HitLen(bs, hd) + HitLen(hs, hd)
           IN  IF /\ HitAdds(gbm.kick, bs, kd)
                  /\ SnareBeat(gbm.i) => HitAdds(gbm.snare, bs, sd)
                  /\ HitAdds(gbm.hihat, bs, hd)
                  /\ HitAdds(gbm.hihat, hs, hd)
               THEN /\ gbm' = [gbm EXCEPT !.i = @ + 1,
                                          !.noise = IF @ < 0 /\ kickN + snareN + hatN > 0
                                                    THEN np_random ELSE @,
                                          !.hit = [kick |-> kickN, snare |-> snareN,
                                                   hihat |-> <<HitLen(bs, hd), HitLen(hs, hd)>>]]
                    /\ np_random' = np_random + kickN + snareN + hatN
                    /\ gpc' = gpc
               ELSE /\ gpc' = Raised
                    /\ UNCHANGED <<gbm, np_random>>
    /\ UNCHANGED <<duration_s, tempo_bpm, mood_arg, returned, notBand>>

\* 251: music = melody + pad + bass + kick + snare + hihat
GSum ==
    /\ gpc = "drums"
    /\ \E count \in BeatCounts : gbm.i >= count
    /\ IF {gbm.melody, gbm.pad, gbm.bass, gbm.kick, gbm.snare, gbm.hihat} = {gbm.melody}
       THEN /\ gbm' = [gbm EXCEPT !.music = gbm.melody]
            /\ gpc' = "bus"
       ELSE /\ gpc' = Raised
            /\ UNCHANGED gbm
    /\ UNCHANGED <<duration_s, tempo_bpm, mood_arg, np_random, returned, notBand>>

\* 254-259: the bus board returns as many samples as it is given
GBus ==
    /\ gpc = "bus"
    /\ gpc' = "fade"
    /\ UNCHANGED <<duration_s, tempo_bpm, mood_arg, gbm, np_random, returned, notBand>>

\* int(sr * 1.5)
fade_samples == (15 * SAMPLE_RATE) \div 10

\* the fades applied to a buffer of two fade lengths as well
FadeApplies_AtTwice(n) == n >= 2 * fade_samples

\* 263: len(music) > 2 * fade_samples
FadeApplies(n) == n > 2 * fade_samples

\* 264-265: the slices the two ramps are multiplied into, the ramps, and
\* the gain on the first and the last sample of the buffer
Fades(n) ==
    [fadein |-> [from |-> 0, to |-> Min(fade_samples, n),
                 ramp |-> LinSpace(0, EnvUnit, fade_samples)],
     fadeout |-> [from |-> Max(n - fade_samples, 0), to |-> n,
                  ramp |-> LinSpace(EnvUnit, 0, fade_samples)],
     first |-> LinValue(LinSpace(0, EnvUnit, fade_samples)[1], 0),
     last |-> LinLast(LinSpace(EnvUnit, 0, fade_samples))]

\* 262-265: the fades are multiplied into the first and the last
\* fade_samples samples, in place
GFade ==
    /\ gpc = "fade"
    /\ IF FadeApplies(gbm.music)
       THEN IF /\ SliceLen(gbm.music, 0, fade_samples) = fade_samples
               /\ SliceLen(gbm.music, gbm.music - fade_samples, gbm.music) = fade_samples
            THEN /\ gpc' = "return"
                 /\ gbm' = [gbm EXCEPT !.faded = Fades(gbm.music)]
            ELSE /\ gpc' = Raised
                 /\ UNCHANGED gbm
       ELSE /\ gpc' = "return"
            /\ UNCHANGED gbm
    /\ UNCHANGED <<duration_s, tempo_bpm, mood_arg, np_random, returned, notBand>>

\* 267: return music
GReturn ==
    /\ gpc = "return"
    /\ returned' = Append(returned, [len |-> gbm.music, noise |-> gbm.noise])
    /\ gpc' = "returned"
    /\ UNCHANGED <<duration_s, tempo_bpm, mood_arg, gbm, np_random, notBand>>

\* the process calls the function again, with the same arguments
GAgain ==
    /\ gpc = "returned"
    /\ Len(returned) < MaxCalls
    /\ gpc' = "start"
    /\ UNCHANGED <<duration_s, tempo_bpm, mood_arg, gbm, np_random, returned, notBand>>

InitBand ==
    /\ duration_s \in Durations
    /\ tempo_bpm \in Tempos
    /\ mood_arg \in Moods
    /\ gbm = <<>>
    /\ np_random = 0
    /\ gpc = "start"
    /\ returned = <<>>
    /\ IdleDuck
    /\ IdleResolver
    /\ IdleVocal
    /\ IdleSong
    /\ IdleTone
    /\ IdlePipeline
    /\ IdleShots

NextBand ==
    \/ GBegin
    \/ GMelodyNote
    \/ GMelodyDone
    \/ GPadChord
    \/ GPadDone
    \/ GBassNote
    \/ GBassDone
    \/ GBeat
    \/ GSum
    \/ GBus
    \/ GFade
    \/ GReturn
    \/ GAgain

\* calls of generate_background_music, one after the other in one process
SpecBand == InitBand /\ [][NextBand]_vars

----------------------------------------------------------------------------
(* Claims on the backing track *)

\* C13: for every duration D, tempo and mood, generate_background_music
\* returns (it does not raise) a buffer whose length is D x 44100 to within
\* the rounding, that is within one sample; D = 4 s gives exactly 176400
\* samples; no track, bus stage or fade has another length than num_samples.
C13_LengthIsDuration ==
    /\ gpc # Raised
    /\ gpc \notin {"idle", "start"} =>
           /\ \A n \in {gbm.melody, gbm.pad, gbm.bass, gbm.kick, gbm.snare,
                        gbm.hihat, gbm.music} : n \in {0, gbm.num_samples}
           /\ Abs(SamplePeriod * gbm.num_samples - duration_s) <= SamplePeriod
    /\ \A c \in 1..Len(returned) :
           /\ returned[c].len = gbm.num_samples
           /\ duration_s = Ms(4000) => returned[c].len = 176400

\* the scenario of the specification: 4 s at 128 bpm, mood "energetic", has
\* returned 176400 samples after laying every track and fading
C13_Witness ==
    /\ gpc = "returned"
    /\ duration_s = Ms(4000)
    /\ tempo_bpm = 128
    /\ mood_arg = Str(<<"e", "n", "e", "r", "g", "e", "t", "i", "c">>)
    /\ returned[1].len = 176400
    /\ gbm.music > 2 * fade_samples

\* C15: two calls of generate_background_music with the same duration, tempo
\* and mood, and no other seed than the one the process started with, return
\* identical buffers: the same samples and the same percussion noise.
C15_SameSeedSameBuffer ==
    Len(returned) >= 2 => returned[1] = returned[2]

----------------------------------------------------------------------------
(* Claims on an empty vocal *)

\* the positions of a request inside mix_and_master
InMix == {"mm_load", "mm_match", "mm_master", "mm_normalize", "mm_clip",
          "mm_quantize", "mm_write"}

\* C11: an empty (zero-length) vocal makes no stage fail and counts as
\* silence of the length of the backing track: the timing transform returns
\* to its caller, which goes on to the pitch shift; mix_and_master pads the
\* vocal to the length of the backing track and does not fail.
C11_EmptyVocalIsSilence ==
    [][\A r \in Requests :
          /\ (vpc[r] = "stretch" /\ y[r].len = 0 /\ vpc'[r] # "stretch")
                 => vpc'[r] = "pitch"
          /\ (vpc[r] = "mm_match" /\ vlen[r] = 0 /\ vpc'[r] # "mm_match")
                 => vlen'[r] = music'[r]
          /\ (vpc[r] \in InMix /\ input[r].len = 0) => vpc'[r] # "failed"]_vars

----------------------------------------------------------------------------
(* Claims on the order of the stages *)

\* the stages of a request, in the order of section 2 of the specification,
\* and the stage a position belongs to (-1: no stage, the request has failed
\* or does not exist)
Stage(p) ==
    CASE p = "load" -> 0
      [] p \in {"split", "stretch"} -> 1
      [] p = "pitch" -> 2
      [] p = "vibrato" -> 3
      [] p = "effects" -> 4
      [] p = "normalize" -> 5
      [] p \in {"write", "writing"} -> 6
      [] p = "returned" -> 7
      [] p = "background" -> 8
      [] p \in InMix -> 9
      [] p = "done" -> 10
      [] OTHER -> -1

\* the effects chain of section 4.3 of the specification
EffectsChain ==
    <<[class |-> "Compressor", db |-> -25], [class |-> "Chorus", db |-> 0],
      [class |-> "Reverb", db |-> 0], [class |-> "Compressor", db |-> -18],
      [class |-> "Gain", db |-> 3]>>

\* C16: a request goes through its stages in strict sequence: timing
\* transform, pitch shift, vibrato, the effects chain in the order
\* compressor(-25 dB), chorus, reverb, compressor(-18 dB), +3 dB gain, peak
\* normalization, file write; a stage is left for the next one or, on a
\* failure, for the return; each plugin runs on the output of the plugin
\* before it; the backing track and mix_and_master start only after the vocal
\* transform has returned.
C16_StagesInSequence ==
    [][\A r \in Requests :
          vpc'[r] # vpc[r] =>
              /\ \/ /\ Stage(vpc'[r]) \in {Stage(vpc[r]), Stage(vpc[r]) + 1}
                    /\ Stage(vpc[r]) >= 0
                 \/ vpc'[r] = "returned" /\ Stage(vpc[r]) < 7 /\ result'[r] = FALSE
                 \/ vpc'[r] = "failed"
              /\ vpc'[r] = "effects" => y'[r].applied = <<>>
              /\ vpc'[r] = "normalize" => y'[r].applied = EffectsChain
              /\ vpc'[r] = "writing" => y[r].applied = EffectsChain
              /\ vpc'[r] \in {"background"} \cup InMix => result[r] \in BOOLEAN]_vars

\* a request has run every stage: the vocal went through the whole chain and
\* was written, and the mix is written
C16_Witness ==
    /\ vpc[1] = "done"
    /\ result[1] = TRUE
    /\ y[1].applied = EffectsChain
    /\ file[1].kind = "sung"
    /\ out[1].kind = "pcm16"

----------------------------------------------------------------------------
(* Claims on the windows of the timing transform *)

\* the windows of 0.3 s (13230 samples at 44100 Hz) a waveform of n samples
\* is cut into: their number, and the length of window k
WindowCount(n) == (n + 13229) \div 13230
WindowLen(n, k) == IF k < WindowCount(n) THEN 13230 ELSE n - 13230 * (k - 1)

\* the windows among the first k that are long enough to be stretched
StretchedUpTo(n, k) == {j \in 1..k : WindowLen(n, j) >= 1000}

\* window k of a waveform of n samples, as the timing transform must leave
\* it in w: passed through, or stretched by the factor of the next draw
WindowHandled(n, k, w) ==
    IF WindowLen(n, k) < 1000
    THEN w = [len |-> WindowLen(n, k), rate |-> 0]
    ELSE /\ w.rate = Uniform((random_seed + Cardinality(StretchedUpTo(n, k - 1))) % RngPeriod)
         /\ w.rate >= 75 /\ w.rate <= 130

\* C19: the timing transform cuts its input into consecutive windows of
\* int(0.3 * sr) samples, the last one possibly shorter; a window of fewer
\* than 1000 samples is passed through and no factor is drawn for it; one
\* factor is drawn for every other window; the output is the windows in
\* their original order.
C19_WindowsInOrder ==
    /\ InTiming(1) =>
           /\ Len(processed[1]) <= WindowCount(input[1].len)
           /\ \A k \in 1..Len(processed[1]) :
                  WindowHandled(input[1].len, k, processed[1][k])
           /\ random_state =
                  (random_seed
                     + Cardinality(StretchedUpTo(input[1].len, Len(processed[1]))))
                  % RngPeriod
    /\ vpc[1] \in {"pitch", "vibrato", "effects", "normalize", "write", "writing"} =>
           /\ Len(y[1].segs) = WindowCount(input[1].len)
           /\ \A k \in 1..Len(y[1].segs) : WindowHandled(input[1].len, k, y[1].segs[k])
           /\ y[1].len = TotalLen(y[1].segs)

\* a vocal of one full window and a window of 999 samples has left the timing
\* transform: the first window stretched, the second passed through
C19_Witness ==
    /\ vpc[1] = "pitch"
    /\ Len(y[1].segs) = 2
    /\ y[1].segs[1].rate # 0
    /\ y[1].segs[2] = [len |-> 999, rate |-> 0]
    /\ random_state = (random_seed + 1) % RngPeriod

----------------------------------------------------------------------------
(* Claims on the divisions of the two normalizations *)

\* C21: normalization never divides by zero.  apply_vocal_effects divides by
\* max(|x|) + 0.01, which is above 0 for every peak; mix_and_master scales by
\* 1 / peak only when peak > 0, so no sample of the mix is a quotient by 0;
\* for an all-zero mix no division is done and an all-zero waveform of the
\* length of the mix is written.
C21_NeverDividesByZero ==
    \A r \in Requests :
        /\ vpc[r] = "normalize" => VocalDivisor(y[r].peak) > 0
        /\ vpc[r] = "mm_clip" =>
               /\ \A j \in 1..Len(mixed[r]) : mixed[r][j].val.den # 0
               /\ peak[r] = 0 => mixed[r] = <<[val |-> Frac(0, AmpUnit), len |-> music[r]]>>
        /\ MixWritten(r) /\ peak[r] = 0 =>
               out[r].samples = <<[val |-> 0, len |-> music[r]]>>

\* a vocal that left the effects chain silent was divided by 0.01 and
\* written, and the mix of the request, all zero, was written as zeros
C21_Witness ==
    /\ MixWritten(1)
    /\ peak[1] = 0
    /\ file[1].kind = "sung"
    /\ file[1].peak = 0
    /\ music[1] > 0
    /\ out[1].samples = <<[val |-> 0, len |-> music[1]]>>

----------------------------------------------------------------------------
(* Claims on the pitch shift *)

\* the scales the resolver can return
Scales == {GroupScales[g] : g \in 1..Len(GroupScales)} \cup {DefaultScale}

CalledPitchShift == called = "apply_vocal_effects"

\* C22: for each of the five scales the resolver can return,
\* apply_vocal_effects takes the degree at index 2, the middle one of the
\* five, as target_freq; the target is not below the base frequency, so the
\* distance in semitones is not negative; the shift is
\* max(4.0, 0.7 x distance + 4.0), which is at least +4 semitones and is the
\* scaled value, never the clamp above it.
C22_ShiftAtLeastFour ==
    CalledPitchShift =>
        \E scale \in Scales :
            /\ ret.base_freq = scale.base_freq
            /\ Len(scale.melody_freqs) = 5
            /\ ret.target_freq = scale.melody_freqs[3]
            /\ ret.target_freq >= ret.base_freq
            /\ ret.semitones >= 0
            /\ ret.n_steps >= 4 * SemiUnit
            /\ ret.n_steps = (7 * ret.semitones) \div 10 + 4 * SemiUnit
            /\ ret.target_freq > ret.base_freq => ret.n_steps > 4 * SemiUnit

\* "dark": 131 Hz over 110 Hz is 3.02 semitones, and the shift is 6.1
C22_Witness ==
    /\ CalledPitchShift
    /\ arg = Str(<<"d", "a", "r", "k">>)
    /\ ret.base_freq = Hz(110)
    /\ ret.target_freq = Hz(131)
    /\ ret.n_steps > 6 * SemiUnit
    /\ ret.n_steps < 6 * SemiUnit + SemiUnit \div 5

----------------------------------------------------------------------------
(* Claims on the drum tracks *)

\* the pass of the beat loop that has just been made, and its beat
BeatLaid == gpc = "drums" /\ gbm.i > 0
Beat == gbm.i - 1

\* the time of beat k, k x 60 / bpm, is below the duration
BelowDuration(k) == k * 60 * Second < duration_s * tempo_bpm

\* the part of a hit of d samples starting at sample s that lies inside the
\* buffer
Inside(s, d) ==
    IF s < gbm.num_samples THEN Min(d, gbm.num_samples - s) ELSE 0

\* the sample at which beat k starts, and the half-beat after it: the time
\* times the sample rate, rounded down
BeatSample(k) == (k * 60 * SAMPLE_RATE) \div tempo_bpm
HalfBeatSample(k) == ((2 * k + 1) * 30 * SAMPLE_RATE) \div tempo_bpm

\* the lengths a hit of d samples may have on its track, for the start
\* samples the rounding of time x rate gives
HitOnBeat(k, d) == {Inside(s, d) : s \in IntOf(k * 60 * SAMPLE_RATE, tempo_bpm)}
HitOnHalfBeat(k, d) ==
    {Inside(s, d) : s \in IntOf((2 * k + 1) * 30 * SAMPLE_RATE, tempo_bpm)}

\* what holds of the hits whatever the reading of "every beat": beats are
\* numbered from 0 and none lies after the duration; the snare is on
\* odd-indexed beats only; every hit is the part of the full hit that lies
\* inside the buffer (truncated at the end, not dropped, not wrapped); the
\* hi-hat is on every beat and half-beat that starts before the end of the
\* buffer; the three tracks keep the length of the buffer
HitsOfBeat ==
    /\ BelowDuration(Beat) \/ Beat * 60 * Second = duration_s * tempo_bpm
    /\ gbm.hit.kick \in HitOnBeat(Beat, kd)
    /\ gbm.hit.snare \in (IF Beat % 2 = 1 THEN HitOnBeat(Beat, sd) ELSE {0})
    /\ gbm.hit.hihat[1] \in HitOnBeat(Beat, hd)
    /\ gbm.hit.hihat[2] \in HitOnHalfBeat(Beat, hd)
    /\ BeatSample(Beat) < gbm.num_samples => gbm.hit.hihat[1] > 0
    /\ HalfBeatSample(Beat) < gbm.num_samples => gbm.hit.hihat[2] > 0
    /\ {gbm.kick, gbm.snare, gbm.hihat} = {gbm.num_samples}

\* C23 as stated: the beat grid is k x 60 / bpm for k = 0, 1, 2, ... while
\* the beat time is below the duration; a kick is placed on every beat of
\* the grid, a snare on exactly the odd-indexed beats, and a hi-hat on every
\* beat and every half-beat that starts before the end of the buffer; hits
\* that run past the end are truncated, not dropped or wrapped.
C23_HitOnEveryBeat ==
    BeatLaid =>
        /\ HitsOfBeat
        /\ BelowDuration(Beat) =>
               /\ gbm.hit.kick > 0
               /\ Beat % 2 = 1 => gbm.hit.snare > 0

\* C23, amended: the beat grid is k x 60 / bpm for k = 0, 1, 2, ... while
\* the beat time is not above the duration; a kick is placed on every beat
\* of the grid whose first sample lies inside the buffer, a snare on exactly
\* the odd-indexed ones among these, and a hi-hat on every beat and every
\* half-beat that starts before the end of the buffer; hits that run past
\* the end are truncated, not dropped or wrapped.
C23_HitOnEveryBeatInBuffer ==
    BeatLaid =>
        /\ HitsOfBeat
        /\ BeatSample(Beat) < gbm.num_samples =>
               /\ gbm.hit.kick > 0
               /\ Beat % 2 = 1 => gbm.hit.snare > 0

\* 3.001 s at 100 bpm: beat 5 starts at 3.0 s, 44 samples before the end; its
\* kick, snare and hi-hat are cut to what is left of the buffer and the
\* half-beat after it, beyond the end, has no hi-hat
C23_Witness ==
    /\ BeatLaid
    /\ duration_s = Ms(3001)
    /\ tempo_bpm = 100
    /\ Beat = 5
    /\ gbm.hit.kick > 0 /\ gbm.hit.kick < kd
    /\ gbm.hit.snare > 0 /\ gbm.hit.snare < sd
    /\ gbm.hit.hihat[1] > 0 /\ gbm.hit.hihat[1] < hd
    /\ gbm.hit.hihat[2] = 0

----------------------------------------------------------------------------
(* Claims on the melody, the bass and the fades *)

\* the scale of the mood passed
Degrees == get_melody_freqs_for_mood(mood_arg).melody_freqs

\* the 2 s slots that start before the end of the buffer
Slots == Ceil(gbm.num_samples, 2 * SAMPLE_RATE)

\* C24: the melody plays one 2 s note per slot; note i starts at 2i seconds
\* and has frequency degrees[i mod 5]; every 2 s slot that starts before the
\* end of the buffer receives a note, for every duration: the repeated scale
\* is never exhausted before the buffer ends.
C24_MelodyFillsEverySlot ==
    /\ gpc = "melody" /\ gbm.i > 0 =>
           /\ gbm.laid = gbm.i
           /\ gbm.note.freq = Frac(Degrees[((gbm.i - 1) % 5) + 1], 1)
           /\ gbm.note.start = 2 * (gbm.i - 1) * SAMPLE_RATE
           /\ gbm.note.generated = 2 * SAMPLE_RATE
           /\ gbm.note.len = Min(2 * SAMPLE_RATE, gbm.num_samples - gbm.note.start)
           /\ gbm.note.len > 0
    /\ gpc \in {"pad", "bass", "drums", "bus", "fade", "return", "returned"} =>
           gbm.laid = Slots

\* 10.5 s: the sixth slot starts at 10 s, after one pass through the scale,
\* and has the first degree again, cut to the 0.5 s that are left
C24_Witness ==
    /\ gpc = "melody"
    /\ duration_s = Ms(10500)
    /\ gbm.i = 6
    /\ gbm.note.freq = Frac(Degrees[1], 1)
    /\ gbm.note.start = 10 * SAMPLE_RATE
    /\ gbm.note.len = SAMPLE_RATE \div 2

\* the bass note that has just been laid
BassLaid == gpc = "bass" /\ gbm.i > 0

\* C25: every bass note has the same fundamental, 0.5 x base_freq of the
\* resolved scale: 220 Hz for the 'energetic' scale; the bass timbre does not
\* halve it again.  The note is generated 2 beat durations long and note i
\* starts at i x 2 beat durations.
C25_BassAtHalfBase ==
    BassLaid =>
        /\ 2 * gbm.note.fundamental.num
               = get_melody_freqs_for_mood(mood_arg).base_freq * gbm.note.fundamental.den
        /\ get_melody_freqs_for_mood(mood_arg) = GroupScales[2] =>
               gbm.note.fundamental.num = Hz(220) * gbm.note.fundamental.den
        /\ gbm.note.generated = (120 * SAMPLE_RATE) \div tempo_bpm
        /\ gbm.note.start \in IntOf((gbm.i - 1) * 120 * SAMPLE_RATE, tempo_bpm)
        /\ gbm.note.len = Min(gbm.note.generated, gbm.num_samples - gbm.note.start)

\* 4 s of 'energetic' at 128 bpm: the fifth bass note, 220 Hz, starts at
\* 3.75 s and is cut at the end of the buffer
C25_Witness ==
    /\ BassLaid
    /\ duration_s = Ms(4000)
    /\ tempo_bpm = 128
    /\ mood_arg = Str(<<"e", "n", "e", "r", "g", "e", "t", "i", "c">>)
    /\ gbm.i = 5
    /\ gbm.note.fundamental = Frac(Hz(440), 2)
    /\ gbm.note.len > 0
    /\ gbm.note.len < gbm.note.generated

\* the call has passed the fades
PastFade == gpc \in {"return", "returned"}

\* C26: the 1.5 s linear fade-in and fade-out are applied exactly when the
\* buffer is longer than 3 s, more than 2 x 66150 samples; a buffer of 3 s or
\* less is returned unfaded; a faded buffer has first and last sample 0 and
\* its two fade regions do not overlap.
C26_FadeWhenLongerThanThreeSeconds ==
    PastFade =>
        /\ gbm.faded # <<>> <=> gbm.music > 2 * 66150
        /\ gbm.faded # <<>> =>
               /\ gbm.faded.fadein.to - gbm.faded.fadein.from = 66150
               /\ gbm.faded.fadeout.to - gbm.faded.fadeout.from = 66150
               /\ gbm.faded.fadein.from = 0
               /\ gbm.faded.fadeout.to = gbm.music
               /\ gbm.faded.first = 0
               /\ gbm.faded.last = 0
               /\ gbm.faded.fadein.to <= gbm.faded.fadeout.from

\* a buffer of 132301 samples, one more than two fade lengths, was faded and
\* has one sample between the two fades
C26_Witness ==
    /\ PastFade
    /\ gbm.music = 2 * 66150 + 1
    /\ gbm.faded # <<>>
    /\ gbm.faded.fadeout.from = gbm.faded.fadein.to + 1

----------------------------------------------------------------------------
(* run_pipeline  (pipeline.py 99-328) *)

MaxRetries == 3     \* largest max_retries passed (3 is the default)

\* class PipelineStep  (21-55); timing left out
StepNames == {"analyze", "lyrics", "critique", "audio", "images", "video"}
PipelineStep == [status |-> "pending", attempt |-> 0, error |-> "none"]
StepStart(steps, name) ==
    [steps EXCEPT ![name] = [@ EXCEPT !.status = "running", !.attempt = @ + 1]]
StepComplete(steps, name) == [steps EXCEPT ![name] = [@ EXCEPT !.status = "completed"]]
StepFail(steps, name, error) ==
    [steps EXCEPT ![name] = [@ EXCEPT !.status = "failed", !.error = error]]
StepSkip(steps, name) == [steps EXCEPT ![name] = [@ EXCEPT !.status = "skipped"]]

\* the values of the locals: what analyze_fn returns, the lyrics the k-th
\* call of lyrics_fn returned, the four lines of 205-210
Context == [kind |-> "context"]
Absent == [kind |-> "absent"]
Generated(k) == [kind |-> "generated", call |-> k]
Fallback ==
    [kind |-> "fallback",
     lines |-> <<"Living in the {context.mood} zone", "Just {context.activity} all alone",
                 "Finding rhythm in the daily grind", "Making melodies inside my mind">>]

\* f"{step}_attempt_{attempt + 1}: {e}"  and  f"critique: {e}", f"images: {e}"
Err(step, attempt) == [step |-> step, attempt |-> attempt]

\* the delay never taken after an attempt
LastAttempt_Never(attempt) == FALSE

\* 172, 204, 267, 306: attempt == max_retries - 1
LastAttempt(attempt) == attempt = max_retries - 1

\* 177, 212, 269, 308: time.sleep(0.5 * (attempt + 1)), in milliseconds
Delay(attempt) == 500 * (attempt + 1)
Sleep(step, attempt) == Append(slept, [step |-> step, attempt |-> attempt, ms |-> Delay(attempt)])

\* one more call of fn
Call(fn) == [fn_calls EXCEPT ![fn] = @ + 1]

\* three regenerations in the critique step
RegenAttempts_Three == 2 + 1

\* 229: for attempt in range(2)
RegenAttempts == 2

\* 129-158: the cache is looked up; a usable entry is returned as it is,
\* otherwise the tracking is set up and the analyze step started (162)
PCacheCheck ==
    /\ ppc = "start"
    /\ IF cache_file = "usable"
       THEN /\ rp' = [rp EXCEPT !.result = [@ EXCEPT !.cached = TRUE, !.audio_path = "cached"]]
            /\ ppc' = "returned"
       ELSE /\ rp' = [rp EXCEPT !.steps = StepStart(@, "analyze"), !.attempt = 0]
            /\ ppc' = "analyze"
    /\ UNCHANGED <<max_retries, given, fn_calls, slept, cache_file, notPipeline>>

\* 163-177: one pass of the analyze loop
PAnalyze ==
    /\ ppc = "analyze"
    /\ rp.attempt < max_retries
    /\ fn_calls' = Call("analyze_fn")
    /\ \/ \E c \in {Context, None} :
              /\ rp' = [rp EXCEPT !.context = c, !.steps = StepComplete(@, "analyze")]
              /\ ppc' = "context"
       \/ IF LastAttempt(rp.attempt)
          THEN /\ rp' = [rp EXCEPT
                            !.errors = Append(@, Err("analyze", rp.attempt + 1)),
                            !.steps = StepFail(@, "analyze", "raised"),
                            !.result = [@ EXCEPT !.error = "Failed to analyze frame",
                                                 !.trace = <<StepFail(rp.steps, "analyze", "raised")>>]]
               /\ ppc' = "returned"
          ELSE /\ rp' = [rp EXCEPT !.errors = Append(@, Err("analyze", rp.attempt + 1))]
               /\ ppc' = "analyze_sleep"
    /\ UNCHANGED <<max_retries, given, slept, cache_file, notPipeline>>

PAnalyzeSleep ==
    /\ ppc = "analyze_sleep"
    /\ slept' = Sleep("analyze", rp.attempt)
    /\ rp' = [rp EXCEPT !.attempt = @ + 1]
    /\ ppc' = "analyze"
    /\ UNCHANGED <<max_retries, given, fn_calls, cache_file, notPipeline>>

\* the range of the analyze loop is used up
PAnalyzeExhausted ==
    /\ ppc = "analyze"
    /\ rp.attempt >= max_retries
    /\ ppc' = "context"
    /\ UNCHANGED <<max_retries, given, rp, fn_calls, slept, cache_file, notPipeline>>

\* 179-194: no context ends the pipeline; otherwise the lyrics step starts
PContext ==
    /\ ppc = "context"
    /\ IF rp.context = None
       THEN /\ rp' = [rp EXCEPT !.result = [@ EXCEPT !.error = "No context produced",
                                                     !.trace = <<rp.steps>>]]
            /\ ppc' = "returned"
       ELSE /\ rp' = [rp EXCEPT !.result = [@ EXCEPT !.context = rp.context],
                                !.lyrics = None,
                                !.steps = StepStart(@, "lyrics"),
                                !.attempt = 0]
            /\ ppc' = "lyrics"
    /\ UNCHANGED <<max_retries, given, fn_calls, slept, cache_file, notPipeline>>

\* 195-212: one pass of the lyrics loop, up to the sleep
PLyrics ==
    /\ ppc = "lyrics"
    /\ rp.attempt < max_retries
    /\ fn_calls' = Call("lyrics_fn")
    /\ \/ /\ rp' = [rp EXCEPT !.lyrics = Generated(fn_calls.lyrics_fn + 1),
                              !.steps = StepComplete(@, "lyrics")]
          /\ ppc' = "lyrics_done"
       \/ /\ rp' = [rp EXCEPT
                       !.errors = Append(@, Err("lyrics", rp.attempt + 1)),
                       !.lyrics = IF LastAttempt(rp.attempt) THEN Fallback ELSE @,
                       !.steps = IF LastAttempt(rp.attempt)
                                 THEN StepFail(@, "lyrics", "fallback_used") ELSE @]
          /\ ppc' = "lyrics_sleep"
    /\ UNCHANGED <<max_retries, given, slept, cache_file, notPipeline>>

\* 212
PLyricsSleep ==
    /\ ppc = "lyrics_sleep"
    /\ slept' = Sleep("lyrics", rp.attempt)
    /\ rp' = [rp EXCEPT !.attempt = @ + 1]
    /\ ppc' = "lyrics"
    /\ UNCHANGED <<max_retries, given, fn_calls, cache_file, notPipeline>>

PLyricsExhausted ==
    /\ ppc = "lyrics"
    /\ rp.attempt >= max_retries
    /\ ppc' = "lyrics_done"
    /\ UNCHANGED <<max_retries, given, rp, fn_calls, slept, cache_file, notPipeline>>

\* 214-217
PLyricsDone ==
    /\ ppc = "lyrics_done"
    /\ rp' = [rp EXCEPT !.result = [@ EXCEPT !.lyrics = rp.lyrics],
                        !.steps = StepStart(@, "critique")]
    /\ ppc' = "critique"
    /\ UNCHANGED <<max_retries, given, fn_calls, slept, cache_file, notPipeline>>

\* 218-253: the critique, when a critique_fn is given and there are lyrics.
\* _critique_lyrics calls critique_fn once and catches what it raises; the
\* critique is good, or asks for an improvement, or is no dict (critique.get
\* raises, caught at 247)
PCritique ==
    /\ ppc = "critique"
    /\ IF "critique_fn" \in given /\ rp.lyrics # None
       THEN /\ fn_calls' = Call("critique_fn")
            /\ \/ /\ rp' = [rp EXCEPT !.steps = StepComplete(@, "critique")]
                  /\ ppc' = "audio_start"
               \/ /\ rp' = [rp EXCEPT !.regen = 0]
                  /\ ppc' = "regenerate"
               \/ /\ rp' = [rp EXCEPT !.steps = StepFail(@, "critique", "raised"),
                                      !.errors = Append(@, Err("critique", 0))]
                  /\ ppc' = "audio_start"
       ELSE /\ rp' = [rp EXCEPT !.steps = StepSkip(@, "critique")]
            /\ ppc' = "audio_start"
            /\ UNCHANGED fn_calls
    /\ UNCHANGED <<max_retries, given, slept, cache_file, notPipeline>>

\* 229-242: one pass of the regeneration loop: lyrics_fn(context, lyrics),
\* then the new critique; a score of 6 or more ends the loop, anything
\* raised is dropped
PRegenerate ==
    /\ ppc = "regenerate"
    /\ rp.regen < RegenAttempts
    /\ \/ /\ fn_calls' = [fn_calls EXCEPT !.lyrics_fn = @ + 1, !.critique_fn = @ + 1]
          /\ \/ /\ rp' = [rp EXCEPT !.lyrics = Generated(fn_calls.lyrics_fn + 1),
                                    !.regen = @ + 1]
                /\ ppc' = ppc
             \/ /\ rp' = [rp EXCEPT !.lyrics = Generated(fn_calls.lyrics_fn + 1)]
                /\ ppc' = "regenerated"
       \/ /\ fn_calls' = Call("lyrics_fn")
          /\ rp' = [rp EXCEPT !.regen = @ + 1]
          /\ ppc' = ppc
    /\ UNCHANGED <<max_retries, given, slept, cache_file, notPipeline>>

PRegenerateExhausted ==
    /\ ppc = "regenerate"
    /\ rp.regen >= RegenAttempts
    /\ ppc' = "regenerated"
    /\ UNCHANGED <<max_retries, given, rp, fn_calls, slept, cache_file, notPipeline>>

\* 244-246
PRegenerated ==
    /\ ppc = "regenerated"
    /\ rp' = [rp EXCEPT !.result = [@ EXCEPT !.lyrics = rp.lyrics],
                        !.steps = StepComplete(@, "critique")]
    /\ ppc' = "audio_start"
    /\ UNCHANGED <<max_retries, given, fn_calls, slept, cache_file, notPipeline>>

\* 256-257
PAudioStart ==
    /\ ppc = "audio_start"
    /\ rp' = [rp EXCEPT !.audio_path = None, !.steps = StepStart(@, "audio"), !.attempt = 0]
    /\ ppc' = "audio"
    /\ UNCHANGED <<max_retries, given, fn_calls, slept, cache_file, notPipeline>>

\* 258-269: one pass of the audio loop, up to the sleep:
\* sing_fn(lyrics, context.suggested_genre)
PAudio ==
    /\ ppc = "audio"
    /\ rp.attempt < max_retries
    /\ fn_calls' = Call("sing_fn")
    /\ \/ /\ rp' = [rp EXCEPT !.audio_path = [kind |-> "path"],
                              !.sung = rp.lyrics,
                              !.steps = StepComplete(@, "audio")]
          /\ ppc' = "audio_done"
       \/ /\ rp' = [rp EXCEPT
                       !.errors = Append(@, Err("audio", rp.attempt + 1)),
                       !.sung = rp.lyrics,
                       !.steps = IF LastAttempt(rp.attempt)
                                 THEN StepFail(@, "audio", "raised") ELSE @]
          /\ ppc' = "audio_sleep"
    /\ UNCHANGED <<max_retries, given, slept, cache_file, notPipeline>>

PAudioSleep ==
    /\ ppc = "audio_sleep"
    /\ slept' = Sleep("audio", rp.attempt)
    /\ rp' = [rp EXCEPT !.attempt = @ + 1]
    /\ ppc' = "audio"
    /\ UNCHANGED <<max_retries, given, fn_calls, cache_file, notPipeline>>

PAudioExhausted ==
    /\ ppc = "audio"
    /\ rp.attempt >= max_retries
    /\ ppc' = "audio_done"
    /\ UNCHANGED <<max_retries, given, rp, fn_calls, slept, cache_file, notPipeline>>

\* 271-291: the one image, when a video is asked for and image_fn is given;
\* image_fn is called unless the image file exists
PImages ==
    /\ ppc = "audio_done"
    /\ IF {"make_video", "image_fn"} \subseteq given
       THEN \/ /\ fn_calls' = Call("image_fn")
               /\ rp' = [rp EXCEPT !.result = [@ EXCEPT !.audio_path = rp.audio_path,
                                                        !.image_paths = 1],
                                   !.image_paths = 1,
                                   !.steps = StepComplete(StepStart(@, "images"), "images")]
            \/ /\ fn_calls' = fn_calls
               /\ rp' = [rp EXCEPT !.result = [@ EXCEPT !.audio_path = rp.audio_path,
                                                        !.image_paths = 1],
                                   !.image_paths = 1,
                                   !.steps = StepComplete(StepStart(@, "images"), "images")]
            \/ /\ fn_calls' = Call("image_fn")
               /\ rp' = [rp EXCEPT !.result = [@ EXCEPT !.audio_path = rp.audio_path],
                                   !.errors = Append(@, Err("images", 0)),
                                   !.steps = StepFail(StepStart(@, "images"), "images", "raised")]
       ELSE /\ fn_calls' = fn_calls
            /\ rp' = [rp EXCEPT !.result = [@ EXCEPT !.audio_path = rp.audio_path],
                                !.steps = StepSkip(@, "images")]
    /\ ppc' = "video_start"
    /\ UNCHANGED <<max_retries, given, slept, cache_file, notPipeline>>

\* 294-295, 309-310
PVideoStart ==
    /\ ppc = "video_start"
    /\ IF {"make_video", "video_fn"} \subseteq given /\ rp.audio_path # None
       THEN /\ rp' = [rp EXCEPT !.steps = StepStart(@, "video"), !.attempt = 0]
            /\ ppc' = "video"
       ELSE /\ rp' = [rp EXCEPT !.steps = StepSkip(@, "video")]
            /\ ppc' = "finish"
    /\ UNCHANGED <<max_retries, given, fn_calls, slept, cache_file, notPipeline>>

\* 296-308: one pass of the video loop, up to the sleep
PVideo ==
    /\ ppc = "video"
    /\ rp.attempt < max_retries
    /\ fn_calls' = Call("video_fn")
    /\ \/ /\ rp' = [rp EXCEPT !.result = [@ EXCEPT !.video_path = [kind |-> "path"]],
                              !.steps = StepComplete(@, "video")]
          /\ ppc' = "finish"
       \/ /\ rp' = [rp EXCEPT
                       !.errors = Append(@, Err("video", rp.attempt + 1)),
                       !.steps = IF LastAttempt(rp.attempt)
                                 THEN StepFail(@, "video", "raised") ELSE @]
          /\ ppc' = "video_sleep"
    /\ UNCHANGED <<max_retries, given, slept, cache_file, notPipeline>>

PVideoSleep ==
    /\ ppc = "video_sleep"
    /\ slept' = Sleep("video", rp.attempt)
    /\ rp' = [rp EXCEPT !.attempt = @ + 1]
    /\ ppc' = "video"
    /\ UNCHANGED <<max_retries, given, fn_calls, cache_file, notPipeline>>

PVideoExhausted ==
    /\ ppc = "video"
    /\ rp.attempt >= max_retries
    /\ ppc' = "finish"
    /\ UNCHANGED <<max_retries, given, rp, fn_calls, slept, cache_file, notPipeline>>

\* 312-328: the trace, the cache entry (a failure to write is passed over),
\* return result
PFinish ==
    /\ ppc = "finish"
    /\ rp' = [rp EXCEPT !.result = [@ EXCEPT !.trace = <<rp.steps>>]]
    /\ cache_file' \in {cache_file, "written"}
    /\ ppc' = "returned"
    /\ UNCHANGED <<max_retries, given, fn_calls, slept, notPipeline>>

\* a call of run_pipeline: max_retries and the optional arguments are any,
\* the cache file is absent, unusable (no audio file, no JSON) or usable
InitPipeline ==
    /\ max_retries \in 0..MaxRetries
    /\ given \in SUBSET {"critique_fn", "image_fn", "video_fn", "make_video"}
    /\ cache_file \in {"absent", "unusable", "usable"}
    /\ rp = [attempt |-> 0, regen |-> 0, context |-> None, lyrics |-> None,
             sung |-> Absent, audio_path |-> None, image_paths |-> 0,
             steps |-> [n \in StepNames |-> PipelineStep],
             errors |-> <<>>,
             result |-> [cached |-> FALSE, error |-> "absent", trace |-> <<>>,
                         context |-> Absent, lyrics |-> Absent, audio_path |-> Absent,
                         image_paths |-> 0, video_path |-> Absent]]
    /\ ppc = "start"
    /\ fn_calls = [fn \in {"analyze_fn", "lyrics_fn", "critique_fn", "sing_fn",
                           "image_fn", "video_fn"} |-> 0]
    /\ slept = <<>>
    /\ IdleDuck
    /\ IdleResolver
    /\ IdleVocal
    /\ IdleSong
    /\ IdleTone
    /\ IdleBand
    /\ IdleShots

NextPipeline ==
    \/ PCacheCheck
    \/ PAnalyze
    \/ PAnalyzeSleep
    \/ PAnalyzeExhausted
    \/ PContext
    \/ PLyrics
    \/ PLyricsSleep
    \/ PLyricsExhausted
    \/ PLyricsDone
    \/ PCritique
    \/ PRegenerate
    \/ PRegenerateExhausted
    \/ PRegenerated
    \/ PAudioStart
    \/ PAudio
    \/ PAudioSleep
    \/ PAudioExhausted
    \/ PImages
    \/ PVideoStart
    \/ PVideo
    \/ PVideoSleep
    \/ PVideoExhausted
    \/ PFinish

\* one call of run_pipeline
SpecPipeline == InitPipeline /\ [][NextPipeline]_vars

----------------------------------------------------------------------------
(* Claims on run_pipeline *)

\* the entries of errors recorded by a step
ErrorsOf(step) == {k \in 1..Len(rp.errors) : rp.errors[k].step = step}

\* every attempt of the analyze step was made and failed
AllAnalyzeFailed ==
    /\ max_retries > 0
    /\ Cardinality(ErrorsOf("analyze")) = max_retries

\* C27: the analyze step calls analyze_fn at most max_retries times and
\* never again after its first success; when every attempt fails the
\* pipeline returns a result carrying the error 'Failed to analyze frame'
\* and the trace, has recorded one error entry per failed attempt, and calls
\* none of lyrics_fn, critique_fn, sing_fn, image_fn, video_fn and writes no
\* cache entry.
C27_AnalyzeFailureEndsPipeline ==
    [][/\ fn_calls'.analyze_fn <= max_retries
       /\ rp.steps["analyze"].status = "completed" =>
              fn_calls'.analyze_fn = fn_calls.analyze_fn
       /\ Cardinality(ErrorsOf("analyze"))'
              = fn_calls'.analyze_fn
                  - (IF rp'.steps["analyze"].status = "completed" THEN 1 ELSE 0)
       /\ AllAnalyzeFailed' =>
              /\ ppc' = "returned"
              /\ rp'.result.error = "Failed to analyze frame"
              /\ rp'.result.trace # <<>>
              /\ rp'.result.trace[1]["analyze"].status = "failed"
              /\ rp'.errors = [k \in 1..max_retries |-> Err("analyze", k)]
              /\ \A fn \in {"lyrics_fn", "critique_fn", "sing_fn", "image_fn", "video_fn"} :
                     fn_calls'[fn] = 0
              /\ cache_file' = cache_file
              /\ cache_file' # "written"]_vars

\* three attempts, all failed: two delays, three errors, the error result
C27_Witness ==
    /\ ppc = "returned"
    /\ max_retries = 3
    /\ fn_calls.analyze_fn = 3
    /\ Len(rp.errors) = 3
    /\ Len(slept) = 2
    /\ rp.result.error = "Failed to analyze frame"

\* the calls of lyrics_fn made by the lyrics step, and the lyrics the step
\* ended with
LyricsStepCalls ==
    Cardinality(ErrorsOf("lyrics"))
        + (IF rp.steps["lyrics"].status = "completed" THEN 1 ELSE 0)
LyricsStepResult ==
    CASE rp.steps["lyrics"].status = "failed" -> Fallback
      [] rp.steps["lyrics"].status = "completed" -> Generated(LyricsStepCalls)
      [] OTHER -> None

\* the audio step was entered
AudioEntered == rp.steps["audio"].status # "pending"

\* the lyrics step is over
LyricsStepEnded ==
    /\ ppc \notin {"start", "analyze", "analyze_sleep", "context", "lyrics", "lyrics_sleep"}
    /\ rp.steps["lyrics"].status # "pending"

\* what C28 and its amended form share: the lyrics step is marked failed
\* exactly when lyrics_fn failed on all max_retries attempts, the fallback
\* lines are then its outcome, and the pipeline does not return before the
\* audio step; sing_fn is passed the lyrics the pipeline holds
LyricsStepOutcome ==
    /\ LyricsStepEnded =>
           /\ rp.steps["lyrics"].status = "failed"
                  <=> (max_retries > 0 /\ Cardinality(ErrorsOf("lyrics")) = max_retries)
           /\ rp.steps["lyrics"].status = "completed" =>
                  Cardinality(ErrorsOf("lyrics")) < max_retries
           /\ ppc = "returned" => AudioEntered
    /\ rp.sung \in {Absent, rp.lyrics}

\* C28 as stated: when lyrics_fn fails on all max_retries attempts the four
\* fallback lines are used, the lyrics step is marked failed, and the
\* pipeline still proceeds to the audio step with those lyrics; when
\* lyrics_fn succeeds on some attempt its result is used and no further
\* lyrics attempt is made.
C28_LyricsStepDecides ==
    /\ LyricsStepOutcome
    /\ AudioEntered =>
           /\ rp.lyrics = LyricsStepResult
           /\ fn_calls.lyrics_fn = LyricsStepCalls

\* C28, amended: as stated, except that the self-critique step that follows
\* the lyrics step may call lyrics_fn again, at most twice and only when a
\* critique_fn is given, and the audio step then gets the lyrics of the last
\* of these calls that returned; without such a call it gets the outcome of
\* the lyrics step.
C28_LyricsStepThenCritique ==
    /\ LyricsStepOutcome
    /\ AudioEntered =>
           /\ fn_calls.lyrics_fn - LyricsStepCalls \in 0..2
           /\ fn_calls.lyrics_fn > LyricsStepCalls => "critique_fn" \in given
           /\ fn_calls.lyrics_fn = LyricsStepCalls => rp.lyrics = LyricsStepResult
           /\ rp.lyrics \in {LyricsStepResult}
                  \cup {Generated(k) : k \in (LyricsStepCalls + 1)..fn_calls.lyrics_fn}

\* lyrics_fn failed three times, the critique found the fallback lines good
\* and sing_fn was called with them
C28_Witness ==
    /\ max_retries = 3
    /\ rp.steps["lyrics"].status = "failed"
    /\ fn_calls.lyrics_fn = 3
    /\ fn_calls.critique_fn = 1
    /\ fn_calls.sing_fn = 1
    /\ rp.sung = Fallback
    /\ Len(rp.sung.lines) = 4

\* C29: retries use exponential backoff: in each retried step the delay
\* before attempt n+2 is twice the delay before attempt n+1, and no delay is
\* taken after the final failed attempt.
C29_ExponentialBackoff ==
    /\ \A k \in 1..(Len(slept) - 1) :
           slept[k].step = slept[k + 1].step => slept[k + 1].ms = 2 * slept[k].ms
    /\ \A k \in 1..Len(slept) : slept[k].attempt < max_retries - 1

----------------------------------------------------------------------------
(* The screenshot list of the backend: main.py, analyze_frame and
   pipeline_endpoint.  Both handlers write the uploaded image to
   capture_<time>.png and append the path to the module-level list
   captured_screenshots.  An entry is modelled by the serial number of the
   append that made it; no await lies between an append and the trim that
   follows it, so a handler's use of the list is one step. *)

MaxRecorded == 23   \* screenshots appended in one run of the server

\* the uploads: two images with different hashes, and bytes that are no image
Images == {"a", "b"}
Uploads == Images \cup {"not_an_image"}

\* get_image_hash: the dhash of the image; Image.open raises on other bytes
get_image_hash(image_bytes) ==
    IF image_bytes \in Images THEN [ok |-> TRUE, hash |-> image_bytes]
    ELSE [ok |-> FALSE, hash |-> "none"]

\* the hashes of a list of keys
Hashes(keys) == {keys[k] : k \in 1..Len(keys)}

\* list(frame_cache.keys())[-10:]
RecentFrames == 10
recent_hashes ==
    SubSeq(frame_cache, Max(1, Len(frame_cache) - RecentFrames + 1), Len(frame_cache))

\* should_analyze_frame: False when the hash is among the recent keys
should_analyze_frame(image_bytes) ==
    get_image_hash(image_bytes).hash \notin Hashes(recent_hashes)

\* frame_cache[img_hash] = ...: a new key goes last, a known key keeps its place
CachePut(img_hash) ==
    IF img_hash \in Hashes(frame_cache) THEN frame_cache
    ELSE Append(frame_cache, img_hash)

\* "Keep only last 20 screenshots": the trim of analyze_frame, one pop(0)
\* when the list is longer than 20
KeepLast == 20
Trimmed(shots) == IF Len(shots) > KeepLast THEN Tail(shots) ELSE shots

\* analyze_frame, the frame is a recent one: the cached context is returned
\* before anything is written
AnalyzeFrameCached(image_bytes) ==
    /\ get_image_hash(image_bytes).ok
    /\ ~should_analyze_frame(image_bytes)
    /\ get_image_hash(image_bytes).hash \in Hashes(frame_cache)
    /\ response' = "analyze_frame: cached"
    /\ UNCHANGED <<captured_screenshots, recorded, frame_cache>>
    /\ UNCHANGED notShots

\* analyze_frame raises before the append: the bytes are no image, the vision
\* call fails (the frame cache is not written), or the screenshot cannot be
\* written (the frame cache is); the handler answers 500
AnalyzeFrameFails(image_bytes, raises) ==
    /\ \/ ~get_image_hash(image_bytes).ok /\ raises = "get_image_hash"
       \/ /\ get_image_hash(image_bytes).ok
          /\ should_analyze_frame(image_bytes)
          /\ raises \in {"analyze", "open"}
    /\ frame_cache' =
           IF raises = "open" THEN CachePut(get_image_hash(image_bytes).hash)
           ELSE frame_cache
    /\ response' = "analyze_frame: 500"
    /\ UNCHANGED <<captured_screenshots, recorded>>
    /\ UNCHANGED notShots

\* analyze_frame analyses the frame: caches the context, writes the
\* screenshot, appends its path and trims the list
AnalyzeFrame(image_bytes) ==
    /\ recorded < MaxRecorded
    /\ get_image_hash(image_bytes).ok
    /\ should_analyze_frame(image_bytes)
    /\ frame_cache' = CachePut(get_image_hash(image_bytes).hash)
    /\ recorded' = recorded + 1
    /\ captured_screenshots' = Trimmed(Append(captured_screenshots, recorded + 1))
    /\ response' = "analyze_frame: analysed"
    /\ UNCHANGED notShots

\* pipeline_endpoint cannot write the screenshot: 500 before the append
PipelineEndpointFails ==
    /\ response' = "pipeline: 500, nothing recorded"
    /\ UNCHANGED <<captured_screenshots, recorded, frame_cache>>
    /\ UNCHANGED notShots

\* pipeline_endpoint writes the screenshot and appends its path, without a
\* trim; the append stays whether the pipeline that follows returns or the
\* handler answers 500
PipelineEndpoint(image_bytes, raises) ==
    /\ recorded < MaxRecorded
    /\ recorded' = recorded + 1
    /\ captured_screenshots' = Append(captured_screenshots, recorded + 1)
    /\ response' =
           IF raises \/ ~get_image_hash(image_bytes).ok THEN "pipeline: 500"
           ELSE "pipeline: success"
    /\ UNCHANGED frame_cache
    /\ UNCHANGED notShots

\* clear_cache empties the frame cache and leaves the screenshots
ClearCache ==
    /\ frame_cache' = <<>>
    /\ response' = "clear_cache"
    /\ UNCHANGED <<captured_screenshots, recorded>>
    /\ UNCHANGED notShots

\* the server after start-up
InitShots ==
    /\ captured_screenshots = <<>>
    /\ recorded = 0
    /\ frame_cache = <<>>
    /\ response = "none"
    /\ IdleDuck /\ IdleResolver /\ IdleVocal /\ IdleSong /\ IdleTone /\ IdleBand
    /\ IdlePipeline

NextShots ==
    \/ \E image_bytes \in Uploads : AnalyzeFrameCached(image_bytes)
    \/ \E image_bytes \in Uploads, raises \in {"get_image_hash", "analyze", "open"} :
           AnalyzeFrameFails(image_bytes, raises)
    \/ \E image_bytes \in Uploads : AnalyzeFrame(image_bytes)
    \/ PipelineEndpointFails
    \/ \E image_bytes \in Uploads, raises \in BOOLEAN : PipelineEndpoint(image_bytes, raises)
    \/ ClearCache

\* requests to the backend, one at a time
SpecShots == InitShots /\ [][NextShots]_vars

----------------------------------------------------------------------------
(* Claim on the screenshot list *)

\* C30: the list of captured screenshots never holds more than 20 entries
\* after any sequence of calls to the analyze-frame and pipeline endpoints,
\* and it holds the latest ones: when a 21st screenshot is recorded the
\* oldest is dropped.
C30_AtMostTwentyScreenshots ==
    /\ Len(captured_screenshots) <= KeepLast
    /\ captured_screenshots =
           [k \in 1..Len(captured_screenshots) |->
               recorded - Len(captured_screenshots) + k]

====
